---- MODULE Spec2Model ----
\* Model of the indexing-and-query subsystem of talos-mcp: the SearchEngine
\* (src/search.go) with its active/staging/backup index generations, the
\* rebuild (IndexDocuments + atomicSwap) and the query path (Search,
\* GetDocument, GetTaxonomy, GetStats), run by concurrent goroutines that
\* synchronise on the engine's sync.RWMutex; the extraction of the documents
\* from the clone of the documentation repository (src/fetcher.go); and the
\* tool handlers that call them (src/main.go).
EXTENDS Integers, Sequences, FiniteSets, TLC

VARIABLES fs,            \* on-disk locations active/staging/backup
          activeIndex,   \* se.activeIndex handle
          stagingIndex,  \* se.stagingIndex handle
          documents,     \* se.documents: id -> Document
          taxonomy,      \* se.taxonomy
          mu,            \* se.mu (sync.RWMutex)
          rb,            \* one IndexDocuments call per rebuilding goroutine
          qs,            \* one query call per querying goroutine
          repo           \* the clone of the documentation repository

vars == <<fs, activeIndex, stagingIndex, documents, taxonomy, mu, rb, qs, repo>>

----------------------------------------------------------------------------
\* Bounds of the model

\* longest document list handed to one IndexDocuments call
MaxDocs == 2

\* longest document list of a rebuild that runs next to queries
MaxConcurrentDocs == 1

\* sync_documentation requests served
MaxSyncs == 1

\* goroutines that run IndexDocuments (sync_documentation requests, start-up)
Rebuilders == {"r1", "r2"}

\* goroutines that run queries
Readers == {"q1", "q2"}

----------------------------------------------------------------------------
\* Strings (Go strings of ASCII text; a TLA+ string has Len, SubSeq and \o)

Range(s) == {s[i] : i \in DOMAIN s}

Char(s, i) == SubSeq(s, i, i)

UpperCase == <<"A", "B", "C", "D", "E", "F", "G", "H", "I", "J", "K", "L", "M",
               "N", "O", "P", "Q", "R", "S", "T", "U", "V", "W", "X", "Y", "Z">>

LowerCase == <<"a", "b", "c", "d", "e", "f", "g", "h", "i", "j", "k", "l", "m",
               "n", "o", "p", "q", "r", "s", "t", "u", "v", "w", "x", "y", "z">>

Digits == {"0", "1", "2", "3", "4", "5", "6", "7", "8", "9"}

UpperSet == Range(UpperCase)

LowerSet == Range(LowerCase)

ToLowerCh(c) ==
    IF c \in UpperSet THEN LowerCase[CHOOSE i \in 1..26 : UpperCase[i] = c] ELSE c

ToUpperCh(c) ==
    IF c \in LowerSet THEN UpperCase[CHOOSE i \in 1..26 : LowerCase[i] = c] ELSE c

RECURSIVE ToLower(_)
\* strings.ToLower
ToLower(s) == IF s = "" THEN "" ELSE ToLowerCh(Head(s)) \o ToLower(Tail(s))

\* a character of a word for the engine's tokenizer
IsWordCh(c) == c \in LowerSet \/ c \in UpperSet \/ c \in Digits

\* strings.HasPrefix
HasPrefix(s, prefix) ==
    Len(s) >= Len(prefix) /\ SubSeq(s, 1, Len(prefix)) = prefix

\* the positions at which sub occurs in s
Occurrences(s, sub) ==
    {i \in 1..(Len(s) - Len(sub) + 1) : SubSeq(s, i, i + Len(sub) - 1) = sub}

\* strings.Contains
Contains(s, sub) == Occurrences(s, sub) # {}

RECURSIVE Split(_, _)
\* strings.Split(s, sep) for a separator of one character
Split(s, sep) ==
    LET at == Occurrences(s, sep)
    IN  IF at = {} THEN <<s>>
        ELSE LET i == CHOOSE j \in at : \A k \in at : j <= k
             IN  <<SubSeq(s, 1, i - 1)>> \o Split(SubSeq(s, i + 1, Len(s)), sep)

RECURSIVE Repeat(_, _)
\* strings.Repeat
Repeat(s, n) ==
    IF n = 0 THEN ""
    ELSE IF n % 2 = 0 THEN LET half == Repeat(s, n \div 2) IN half \o half
    ELSE s \o Repeat(s, n - 1)

WhiteSpace == {" ", "\t", "\n", "\r"}

RECURSIVE TrimSpace(_)
\* strings.TrimSpace
TrimSpace(s) ==
    IF s = "" THEN ""
    ELSE IF Head(s) \in WhiteSpace THEN TrimSpace(Tail(s))
    ELSE IF Char(s, Len(s)) \in WhiteSpace THEN TrimSpace(SubSeq(s, 1, Len(s) - 1))
    ELSE s

\* case-insensitive equality of two strings of the same length
EqualFold(a, b) ==
    /\ Len(a) = Len(b)
    /\ \A k \in 1..Len(a) : ToLowerCh(Char(a, k)) = ToLowerCh(Char(b, k))

\* the positions at which word stands in text as a whole word, whatever its case
WordOccurrences(text, word) ==
    LET n     == Len(word)
        first == {ToLowerCh(Char(word, 1)), ToUpperCh(Char(word, 1))}
    IN  {i \in 1..(Len(text) - n + 1) :
            /\ Char(text, i) \in first
            /\ EqualFold(SubSeq(text, i, i + n - 1), word)
            /\ (i = 1 \/ ~IsWordCh(Char(text, i - 1)))
            /\ (i + n > Len(text) \/ ~IsWordCh(Char(text, i + n)))}

----------------------------------------------------------------------------
\* Documents

D1 == [ID |-> "v1.7-guides-install", Title |-> "Installing",
       Content |-> "# Installing\nRun the installer.", Path |-> "guides/install",
       Version |-> "v1.7", Section |-> "Guides", Platform |-> "",
       Tags |-> <<"guides", "install">>]

D2 == [ID |-> "v1.8-reference-aws", Title |-> "AWS",
       Content |-> "# AWS\nTalos on AWS.", Path |-> "reference/aws",
       Version |-> "v1.8", Section |-> "Reference", Platform |-> "aws",
       Tags |-> <<"reference", "aws">>]

\* same id as D1 (same version, section and base name), other content
D3 == [ID |-> "v1.7-guides-install", Title |-> "Install",
       Content |-> "Talos installer", Path |-> "GUIDES/install",
       Version |-> "v1.7", Section |-> "guides", Platform |-> "metal",
       Tags |-> <<"guides", "install", "talos">>]

DocUniverse == {D1, D2, D3}

DocIds == {d.ID : d \in DocUniverse}

RECURSIVE SeqsUpTo(_, _)
SeqsUpTo(S, n) ==
    IF n = 0 THEN {<<>>}
    ELSE LET shorter == SeqsUpTo(S, n - 1)
         IN  shorter \cup {Append(s, x) : s \in {t \in shorter : Len(t) = n - 1}, x \in S}

\* the document lists a caller may pass to IndexDocuments
DocLists == SeqsUpTo(DocUniverse, MaxDocs)

ShortDocLists == SeqsUpTo(DocUniverse, MaxConcurrentDocs)

EmptyMap == [x \in {} |-> x]

Put(m, k, v) == [x \in (DOMAIN m) \cup {k} |-> IF x = k THEN v ELSE m[x]]

----------------------------------------------------------------------------
\* The file system under indexPath and the bleve handles

Locs == {"active", "staging", "backup"}

\* no index at a location: no directory (at staging also the empty directory
\* that MkdirAll leaves when bleve.New fails after it)
Absent == [exists |-> FALSE, docs |-> EmptyMap]

Exists(g) == g.exists

\* the index that bleve.New creates
NewGen == [exists |-> TRUE, docs |-> EmptyMap]

\* a handle after Close()
Closed == [open |-> FALSE, loc |-> "none"]

\* a handle on the index at a location
OpenOn(l) == [open |-> TRUE, loc |-> l]

\* the index an open handle reads
HandleGen(h, f) == IF h.open /\ h.loc \in Locs THEN f[h.loc] ELSE Absent

\* where a directory that was at l is after rename(from, to): an open handle
\* and the record of the previous generation follow their directory
Follow(l, from, to, ok) == IF ok /\ l = from THEN to ELSE l

\* where it is after RemoveAll(path)
Removed(l, path, ok) == IF ok /\ l = path THEN "none" ELSE l

\* os.RemoveAll(path)
RemoveAll(f, path, fault) == IF fault THEN f ELSE [f EXCEPT ![path] = Absent]

\* os.Rename(from, to) of a directory: the source must exist, and an existing
\* directory at the target makes the rename fail
RenameOk(f, from, to, fault) == ~fault /\ Exists(f[from]) /\ ~Exists(f[to])

Rename(f, from, to, fault) ==
    IF RenameOk(f, from, to, fault)
    THEN [f EXCEPT ![to] = f[from], ![from] = Absent]
    ELSE f

\* bleve.New(path): fails on an existing index (ErrorIndexPathExists)
NewOk(f, path, fault) == ~fault /\ ~Exists(f[path])

\* bleve.Open(path)
OpenOk(f, path, fault) == ~fault /\ Exists(f[path])

----------------------------------------------------------------------------
\* Taxonomy

EmptyTaxonomy == [Versions |-> {}, Sections |-> {}, Platforms |-> {}, Tags |-> {}]

NonEmpty(s) == IF s = "" THEN {} ELSE {s}

updateTaxonomy(tax, doc) ==
    [Versions  |-> tax.Versions \cup NonEmpty(doc.Version),
     Sections  |-> tax.Sections \cup NonEmpty(doc.Section),
     Platforms |-> tax.Platforms \cup NonEmpty(doc.Platform),
     Tags      |-> tax.Tags \cup Range(doc.Tags)]

----------------------------------------------------------------------------
\* Indexing one document

RECURSIVE JoinTags(_)
\* strings.Join(doc.Tags, " "): the tags with a separator between neighbours
JoinTags(tags) ==
    IF Len(tags) = 0 THEN ""
    ELSE IF Len(tags) = 1 THEN tags[1]
    ELSE tags[1] \o " " \o JoinTags(Tail(tags))

\* the field map that indexDocument hands to the engine (no path, no metadata)
IndexDoc(doc) ==
    [title |-> doc.Title, content |-> doc.Content, version |-> doc.Version,
     section |-> doc.Section, platform |-> doc.Platform, tags |-> JoinTags(doc.Tags)]

\* index.Index(doc.ID, indexDoc): the last write for an id wins
indexDocument(stored, doc) == Put(stored, doc.ID, IndexDoc(doc))

\* a loop body that skips a document the cache already holds
IndexLoopBodySkipCached(st, doc, ok) ==
    IF ~ok \/ doc.ID \in DOMAIN st.documents THEN st
    ELSE [staging   |-> indexDocument(st.staging, doc),
          taxonomy  |-> updateTaxonomy(st.taxonomy, doc),
          documents |-> Put(st.documents, doc.ID, doc)]

\* a loop body without the `continue` after a failed indexDocument
IndexLoopBodyNoContinue(st, doc, ok) ==
    [staging   |-> IF ok THEN indexDocument(st.staging, doc) ELSE st.staging,
     taxonomy  |-> updateTaxonomy(st.taxonomy, doc),
     documents |-> Put(st.documents, doc.ID, doc)]

\* a loop body that keeps the first document of an id within a rebuild
IndexLoopBodyKeepFirst(st, doc, ok) ==
    IF ~ok \/ doc.ID \in DOMAIN st.staging THEN st
    ELSE [staging   |-> indexDocument(st.staging, doc),
          taxonomy  |-> updateTaxonomy(st.taxonomy, doc),
          documents |-> Put(st.documents, doc.ID, doc)]

\* one iteration of the loop of IndexDocuments over st = (staging index,
\* taxonomy, cache); ok is the outcome of indexDocument
IndexLoopBody(st, doc, ok) ==
    IF ~ok THEN st
    ELSE [staging   |-> indexDocument(st.staging, doc),
          taxonomy  |-> updateTaxonomy(st.taxonomy, doc),
          documents |-> Put(st.documents, doc.ID, doc)]

----------------------------------------------------------------------------
\* The clone of the documentation repository: the navigation manifest
\* (public/docs.json, decoded) and the files under public/

\* a page item of a group: a page path (a JSON string), a nested group (a JSON
\* object with "group" and "pages"), or a JSON object without them
PageRef(path) == [kind |-> "page", page |-> path]

NestedGroup(name, pages) == [kind |-> "group", group |-> name, pages |-> pages]

OtherItem == [kind |-> "other"]

\* a file that does not exist, one that exists and cannot be read, one that
\* holds content
Missing == [state |-> "missing", content |-> ""]

Unreadable == [state |-> "unreadable", content |-> ""]

File(content) == [state |-> "ok", content |-> content]

\* a clone with an empty manifest and no files
EmptyRepo == [nav |-> [Tabs |-> <<>>], files |-> EmptyMap, pulls |-> 0, cloned |-> TRUE]

FileAt(files, path) == IF path \in DOMAIN files THEN files[path] ELSE Missing

\* os.Stat(path) reports that the file does not exist
IsNotExist(files, path) == FileAt(files, path).state = "missing"

\* os.ReadFile(path)
ReadFile(files, path) ==
    LET f == FileAt(files, path)
    IN  [err |-> f.state # "ok", content |-> IF f.state = "ok" THEN f.content ELSE ""]

----------------------------------------------------------------------------
\* Extraction of the documents (DocumentationFetcher)

\* filepath.Base of a slash-separated path
Base(path) ==
    IF path = "" THEN "."
    ELSE LET parts == Split(path, "/") IN parts[Len(parts)]

RECURSIVE FirstHeadingAnyLevel(_)
\* a loop that takes the first heading of any level
FirstHeadingAnyLevel(lines) ==
    IF lines = <<>> THEN [found |-> FALSE, title |-> ""]
    ELSE LET line == TrimSpace(Head(lines))
         IN  IF HasPrefix(line, "#")
             THEN [found |-> TRUE,
                   title |-> IF HasPrefix(line, "# ") THEN SubSeq(line, 3, Len(line))
                             ELSE line]
             ELSE FirstHeadingAnyLevel(Tail(lines))

RECURSIVE FirstHeading(_)
\* the loop of extractTitle: the text of the first line that starts with "# "
FirstHeading(lines) ==
    IF lines = <<>> THEN [found |-> FALSE, title |-> ""]
    ELSE LET line == TrimSpace(Head(lines))
         IN  IF HasPrefix(line, "# ")
             THEN [found |-> TRUE, title |-> SubSeq(line, 3, Len(line))]
             ELSE FirstHeading(Tail(lines))

extractTitle(content, pagePath) ==
    LET heading == FirstHeading(Split(content, "\n"))
    IN  IF heading.found THEN heading.title ELSE Base(pagePath)

PlatformNames ==
    <<"aws", "azure", "gcp", "digitalocean", "hetzner", "vultr", "exoscale",
      "scaleway", "upcloud", "oracle", "akamai", "cloudstack", "nocloud", "openstack",
      "equinix-metal", "proxmox", "vmware", "kvm", "hyper-v", "xen", "docker", "qemu",
      "virtualbox", "banana", "nanopi", "jetson", "orangepi", "pine64", "rock", "rpi">>

\* a test of the path as it is written
extractPlatformCaseSensitive(pagePath) ==
    LET found == {i \in DOMAIN PlatformNames : Contains(pagePath, PlatformNames[i])}
    IN  IF found = {} THEN ""
        ELSE PlatformNames[CHOOSE i \in found : \A j \in found : i <= j]

\* the first platform name the lower-cased path contains
extractPlatformFromPath(pagePath) ==
    LET lowerPath == ToLower(pagePath)
        found == {i \in DOMAIN PlatformNames : Contains(lowerPath, PlatformNames[i])}
    IN  IF found = {} THEN ""
        ELSE PlatformNames[CHOOSE i \in found : \A j \in found : i <= j]

Keywords ==
    <<"installation", "configuration", "networking", "security", "upgrade",
      "troubleshooting", "api", "cli", "kernel", "storage", "monitoring">>

RECURSIVE UniqueTags(_, _)
\* the last loop of extractTags: trimmed, no empty tag, no tag twice
UniqueTags(tags, seen) ==
    IF tags = <<>> THEN <<>>
    ELSE LET tag == TrimSpace(Head(tags))
         IN  IF tag # "" /\ tag \notin seen
             THEN <<tag>> \o UniqueTags(Tail(tags), seen \cup {tag})
             ELSE UniqueTags(Tail(tags), seen)

\* tags of the path as it is written
extractTagsOfRawPath(content, pagePath) ==
    LET pathTags     == Split(pagePath, "/")
        lowerContent == ToLower(content)
        IsIn(keyword) == Contains(lowerContent, keyword)
    IN  UniqueTags(pathTags \o SelectSeq(Keywords, IsIn), {})

\* the segments of the lower-cased path, then the keywords the lower-cased
\* content contains
extractTags(content, pagePath) ==
    LET pathTags     == Split(ToLower(pagePath), "/")
        lowerContent == ToLower(content)
        IsIn(keyword) == Contains(lowerContent, keyword)
    IN  UniqueTags(pathTags \o SelectSeq(Keywords, IsIn), {})

\* the document of a page whose content was read from filePath
NewDocument(tab, version, groupName, platform, pagePath, filePath, content) ==
    [ID |-> version \o "-" \o ToLower(groupName) \o "-" \o ToLower(Base(pagePath)),
     Title |-> extractTitle(content, pagePath),
     Content |-> content,
     Path |-> pagePath,
     Version |-> version,
     Section |-> groupName,
     Platform |-> IF platform = "" THEN extractPlatformFromPath(pagePath) ELSE platform,
     Tags |-> extractTags(content, pagePath),
     Metadata |-> [tab |-> tab, file_path |-> filePath]]

\* a lookup that tries .md before .mdx
extractDocumentMdFirst(files, tab, version, groupName, platform, pagePath) ==
    LET md       == "public/" \o pagePath \o ".md"
        filePath == IF IsNotExist(files, md) THEN "public/" \o pagePath \o ".mdx" ELSE md
        read     == ReadFile(files, filePath)
    IN  IF read.err THEN <<>>
        ELSE IF Len(read.content) = 0 THEN <<>>
        ELSE <<NewDocument(tab, version, groupName, platform, pagePath, filePath,
                           read.content)>>

\* extractDocument: the document of a page, or none (nil)
extractDocument(files, tab, version, groupName, platform, pagePath) ==
    LET mdx      == "public/" \o pagePath \o ".mdx"
        filePath == IF IsNotExist(files, mdx) THEN "public/" \o pagePath \o ".md" ELSE mdx
        read     == ReadFile(files, filePath)
    IN  IF read.err THEN <<>>
        ELSE IF Len(read.content) = 0 THEN <<>>
        ELSE <<NewDocument(tab, version, groupName, platform, pagePath, filePath,
                           read.content)>>

RECURSIVE extractDocumentsFromGroupParentName(_, _, _, _, _, _)
\* a traversal that files the pages of a nested group under the parent's name
extractDocumentsFromGroupParentName(files, tab, version, groupName, platform, pages) ==
    IF pages = <<>> THEN <<>>
    ELSE LET p == Head(pages)
             docs == CASE p.kind = "page" ->
                            extractDocument(files, tab, version, groupName, platform, p.page)
                       [] p.kind = "group" ->
                            extractDocumentsFromGroupParentName(files, tab, version,
                                                                groupName, platform, p.pages)
                       [] OTHER -> <<>>
         IN  docs \o extractDocumentsFromGroupParentName(files, tab, version, groupName,
                                                         platform, Tail(pages))

RECURSIVE extractDocumentsFromGroup(_, _, _, _, _, _)
extractDocumentsFromGroup(files, tab, version, groupName, platform, pages) ==
    IF pages = <<>> THEN <<>>
    ELSE LET p == Head(pages)
             docs == CASE p.kind = "page" ->
                            extractDocument(files, tab, version, groupName, platform, p.page)
                       [] p.kind = "group" ->
                            extractDocumentsFromGroup(files, tab, version, p.group,
                                                      platform, p.pages)
                       [] OTHER -> <<>>
         IN  docs \o extractDocumentsFromGroup(files, tab, version, groupName, platform,
                                               Tail(pages))

RECURSIVE GroupCallDepth(_)
\* the number of activations of extractDocumentsFromGroup that are on the
\* stack at the deepest point of the call for pages: the call itself and,
\* for every nested group, the call it makes for that group's pages
GroupCallDepth(pages) ==
    LET nested == {i \in DOMAIN pages : pages[i].kind = "group"}
        below  == {GroupCallDepth(pages[i].pages) : i \in nested}
    IN  1 + (IF below = {} THEN 0 ELSE CHOOSE d \in below : \A e \in below : e <= d)

RECURSIVE extractDocumentsFromVersion(_, _, _, _)
extractDocumentsFromVersion(files, tab, version, groups) ==
    IF groups = <<>> THEN <<>>
    ELSE extractDocumentsFromGroup(files, tab, version, Head(groups).Group, "",
                                   Head(groups).Pages)
         \o extractDocumentsFromVersion(files, tab, version, Tail(groups))

RECURSIVE ExtractVersions(_, _, _)
\* the loop of ExtractDocuments over the versions of a tab
ExtractVersions(files, tab, versions) ==
    IF versions = <<>> THEN <<>>
    ELSE extractDocumentsFromVersion(files, tab, Head(versions).Version,
                                     Head(versions).Groups)
         \o ExtractVersions(files, tab, Tail(versions))

RECURSIVE ExtractTabs(_, _, _)
\* the loop of ExtractDocuments over the tabs; only: the tab it processes
ExtractTabs(files, tabs, only) ==
    IF tabs = <<>> THEN <<>>
    ELSE (IF Head(tabs).Tab \in only
          THEN ExtractVersions(files, Head(tabs).Tab, Head(tabs).Versions)
          ELSE <<>>)
         \o ExtractTabs(files, Tail(tabs), only)

\* an extraction that processes every tab
ExtractDocumentsOfAllTabs(nav, files) ==
    [documents |-> ExtractTabs(files, nav.Tabs, {t.Tab : t \in Range(nav.Tabs)}),
     err |-> ""]

\* an extraction that leaves out the documents the cache holds
ExtractDocumentsNotCached(nav, files) ==
    [documents |-> SelectSeq(ExtractTabs(files, nav.Tabs, {"Talos"}),
                             LAMBDA d : d.ID \notin DOMAIN documents),
     err |-> ""]

\* ExtractDocuments: the documents and the error (always nil)
ExtractDocuments(nav, files) ==
    [documents |-> ExtractTabs(files, nav.Tabs, {"Talos"}), err |-> ""]

----------------------------------------------------------------------------
\* sync.RWMutex

NoWriter == ""

\* a writer that takes the lock although readers hold it
CanLockIgnoringReaders(m) == m.writer = NoWriter

\* Lock() returns once no reader and no writer holds the lock
CanLock(m) == m.writer = NoWriter /\ m.readers = {}

\* a reader that does not wait for the writer
CanRLockDespiteWriter(m) == TRUE

\* RLock() returns unless a writer holds the lock or is blocked in Lock()
CanRLock(m) == m.writer = NoWriter /\ m.waiting = {}

----------------------------------------------------------------------------
\* State after NewSearchEngine

\* the index contents an earlier run of the process may have left on disk
StoredSets == {EmptyMap} \cup
              {[i \in {d.ID} |-> IndexDoc(d)] : d \in DocUniverse} \cup
              {[i \in {d.ID, e.ID} |-> IF i = d.ID THEN IndexDoc(d) ELSE IndexDoc(e)] :
                   d \in DocUniverse, e \in DocUniverse}

NoSnapshot == [active |-> Absent, open |-> FALSE,
               documents |-> EmptyMap, taxonomy |-> EmptyTaxonomy]

NoSource == [nav |-> [Tabs |-> <<>>], files |-> EmptyMap]

NoFirstCall == [okIdx |-> {}, count |-> 0, taxonomy |-> EmptyTaxonomy]

\* docs: the argument; i: the loop index; okIdx: the indices whose indexDocument
\* succeeded; err: the error returned ("" for nil).
\* pre: what the engine held when the call took the lock; preLoc: where the
\* generation that was active then is now; log: the steps of the swap so far;
\* repeat: 0 for a single call, 1 and 2 for the first and second call of a
\* caller that rebuilds twice with the same list; first: the outcome of call 1;
\* caller: "sync" for handleSyncDocumentation, "init" for initializeDocuments,
\* "" for a direct call; src: the manifest and the files that docs was
\* extracted from; last: the list of the last call made for a handler or for
\* the start-up that returned nil; lastSrc: what it was extracted from
IdleRebuild == [pc |-> "idle", docs |-> <<>>, i |-> 0, okIdx |-> {}, err |-> "",
                pre |-> NoSnapshot, preLoc |-> "none", log |-> <<>>,
                repeat |-> 0, first |-> NoFirstCall, caller |-> "",
                src |-> NoSource, last |-> <<>>, lastSrc |-> NoSource,
                fetched |-> FALSE]

NoRequest == [Query |-> "", Version |-> "", Section |-> "", Platform |-> "", Limit |-> 0]

NoResponse == [err |-> "", results |-> <<>>, total |-> 0]

\* the arguments of a search_talos_docs tool call; limit 0: not supplied
NoArgs == [query |-> "", version |-> "", section |-> "", platform |-> "", limit |-> 0]

\* what GetTaxonomy hands to its caller: alias tells whether the maps are
\* those of the engine, value holds their content when they are its own
NoHeld == [held |-> FALSE, alias |-> FALSE, value |-> EmptyTaxonomy]

\* GetTaxonomy copies the four maps into new ones
GetTaxonomy(tax) == [held |-> TRUE, alias |-> FALSE, value |-> tax]

\* call: the query and its argument, with the tool arguments when a tool
\* handler makes the call; snap: what the engine held when the query took
\* the lock; readLoc: the location of the index the query read; failed: the
\* hits whose retrieval from the index failed; held: the taxonomy that a tool
\* handler (call.id names it) got from GetTaxonomy and keeps while it searches
IdleQuery == [pc |-> "idle",
              call |-> [kind |-> "", id |-> "", req |-> NoRequest, tool |-> NoArgs],
              snap |-> NoSnapshot, midRebuild |-> FALSE, readLoc |-> "none",
              hits |-> <<>>, failed |-> {}, resp |-> NoResponse, held |-> NoHeld]

Init ==
    /\ \E stored \in StoredSets, hasBackup \in BOOLEAN :
          fs = [l \in Locs |->
                  CASE l = "active"  -> [exists |-> TRUE, docs |-> stored]
                    [] l = "staging" -> NewGen
                    [] l = "backup"  -> IF hasBackup THEN NewGen ELSE Absent]
    /\ activeIndex = OpenOn("active")
    /\ stagingIndex = OpenOn("staging")
    /\ documents = EmptyMap
    /\ taxonomy = EmptyTaxonomy
    /\ mu = [writer |-> NoWriter, readers |-> {}, waiting |-> {}]
    /\ rb = [r \in Rebuilders |-> IdleRebuild]
    /\ qs = [q \in Readers |-> IdleQuery]
    /\ repo = EmptyRepo

\* the calls between se.mu.Lock() and the deferred Unlock()
Rebuilding == {r \in Rebuilders : rb[r].pc \notin {"idle", "waitLock"}}

\* the calls between se.mu.RLock() and the deferred RUnlock()
Querying == {q \in Readers : qs[q].pc \notin {"idle", "waitRLock"}}

\* the calls blocked in se.mu.RLock()
Blocked == {q \in Readers : qs[q].pc = "waitRLock"}

\* what a query reads: the index behind the active handle, the cache, the taxonomy
Observed == [active |-> HandleGen(activeIndex, fs), open |-> activeIndex.open,
             documents |-> documents, taxonomy |-> taxonomy]

\* the query q at the return of se.mu.RLock() in the call c; mid: a rebuild
\* is between its Lock() and its Unlock()
Acquired(q, c, mid) ==
    [IdleQuery EXCEPT !.pc = IF c.kind = "Search" THEN "exec" ELSE "read",
                      !.held = IF c.kind = "Search" THEN qs[q].held ELSE NoHeld,
                      !.call = c, !.snap = Observed, !.midRebuild = mid]

----------------------------------------------------------------------------
\* IndexDocuments. The environment of an action is a parameter: lists are the
\* arguments callers pass, faults the outcomes of the calls into the
\* operating system and the engine (TRUE: the call fails).

Logged(r, step, ok) == Append(rb[r].log, <<step, ok>>)

DocCount(g) == Cardinality(DOMAIN g.docs)

\* the call is made and blocks in se.mu.Lock(); twice: the caller will call
\* again with the same list
CallIndexDocuments(r, twice) ==
    /\ rb[r].pc = "idle"
    /\ \E t \in twice : rb' = [rb EXCEPT ![r].pc = "waitLock",
                                         ![r].repeat = IF t THEN 1 ELSE 0]
    /\ mu' = [mu EXCEPT !.waiting = @ \cup {r}]
    /\ UNCHANGED <<repo, fs, activeIndex, stagingIndex, documents, taxonomy, qs>>

\* se.mu.Lock() returns; docs is the argument of the call
Lock(r, lists) ==
    /\ rb[r].pc = "waitLock"
    /\ CanLock(mu)
    /\ mu' = [mu EXCEPT !.writer = r, !.waiting = @ \ {r}]
    /\ \E docs \in IF rb[r].repeat = 2 THEN {rb[r].docs} ELSE lists :
          rb' = [rb EXCEPT ![r].pc = "clearStaging", ![r].docs = docs,
                    ![r].pre = [active |-> fs["active"], open |-> activeIndex.open,
                                documents |-> documents, taxonomy |-> taxonomy],
                    ![r].preLoc = IF Exists(fs["active"]) THEN "active" ELSE "none"]
    /\ UNCHANGED <<repo, fs, activeIndex, stagingIndex, documents, taxonomy, qs>>

AfterLoop(docs, i) == IF i > Len(docs) THEN "swapClose" ELSE "index"

\* clear the staging location and create a fresh staging index in it
ClearStaging(r, faults) ==
    /\ rb[r].pc = "clearStaging"
    /\ \E fRemove \in faults, fMkdir \in faults, fNew \in faults :
          LET f1 == RemoveAll(fs, "staging", fRemove)
          IN  IF fMkdir
              THEN /\ fs' = f1
                   /\ stagingIndex' = Closed
                   /\ rb' = [rb EXCEPT ![r].pc = "return",
                                       ![r].err = "failed to create staging directory"]
              ELSE IF ~NewOk(f1, "staging", fNew)
              THEN /\ fs' = f1
                   /\ stagingIndex' = Closed
                   /\ rb' = [rb EXCEPT ![r].pc = "return",
                                       ![r].err = "failed to create new staging index"]
              ELSE /\ fs' = [f1 EXCEPT !["staging"] = NewGen]
                   /\ stagingIndex' = OpenOn("staging")
                   /\ rb' = [rb EXCEPT ![r].pc = AfterLoop(rb[r].docs, 1), ![r].i = 1]
    /\ UNCHANGED <<repo, activeIndex, documents, taxonomy, mu, qs>>

\* one iteration of the indexing loop
IndexOne(r, faults) ==
    /\ rb[r].pc = "index"
    /\ \E fault \in faults :
          LET i   == rb[r].i
              doc == rb[r].docs[i]
              st  == IndexLoopBody([staging |-> fs["staging"].docs, taxonomy |-> taxonomy,
                                    documents |-> documents], doc, ~fault)
          IN  /\ fs' = [fs EXCEPT !["staging"].docs = st.staging]
              /\ taxonomy' = st.taxonomy
              /\ documents' = st.documents
              /\ rb' = [rb EXCEPT ![r].i = i + 1,
                                  ![r].okIdx = IF fault THEN @ ELSE @ \cup {i},
                                  ![r].pc = AfterLoop(rb[r].docs, i + 1)]
    /\ UNCHANGED <<repo, activeIndex, stagingIndex, mu, qs>>

----------------------------------------------------------------------------
\* atomicSwap

\* a swap that leaves the active handle open across the renames
KeepActiveOpen(h) == h

\* se.activeIndex.Close()
CloseActive(h) == Closed

\* a swap that goes on to reopen the active location after a failed move
AfterMoveIgnoringError(ok) == "swapReopen"

\* the swap returns the error of a failed staging-to-active rename
AfterMove(ok) == IF ok THEN "swapReopen" ELSE "return"

FollowHandle(h, from, to, ok) ==
    IF h.open THEN [h EXCEPT !.loc = Follow(@, from, to, ok)] ELSE h

DropHandle(h, path, ok) ==
    IF h.open THEN [h EXCEPT !.loc = Removed(@, path, ok)] ELSE h

SwapClose(r) ==
    /\ rb[r].pc = "swapClose"
    /\ activeIndex' = CloseActive(activeIndex)
    /\ stagingIndex' = Closed
    /\ rb' = [rb EXCEPT ![r].pc = "swapRemoveBackup", ![r].log = Logged(r, "close", TRUE)]
    /\ UNCHANGED <<repo, fs, documents, taxonomy, mu, qs>>

SwapRemoveBackup(r, faults) ==
    /\ rb[r].pc = "swapRemoveBackup"
    /\ \E fault \in faults :
          /\ fs' = RemoveAll(fs, "backup", fault)
          /\ activeIndex' = DropHandle(activeIndex, "backup", ~fault)
          /\ rb' = [rb EXCEPT ![r].pc = "swapBackup",
                              ![r].preLoc = Removed(@, "backup", ~fault),
                              ![r].log = Logged(r, "removeBackup", ~fault)]
    /\ UNCHANGED <<repo, stagingIndex, documents, taxonomy, mu, qs>>

SwapBackup(r, faults) ==
    /\ rb[r].pc = "swapBackup"
    /\ \E fault \in faults :
          LET ok == RenameOk(fs, "active", "backup", fault)
          IN  /\ fs' = Rename(fs, "active", "backup", fault)
              /\ activeIndex' = FollowHandle(activeIndex, "active", "backup", ok)
              /\ rb' = [rb EXCEPT ![r].pc = "swapMove",
                                  ![r].preLoc = Follow(@, "active", "backup", ok),
                                  ![r].log = Logged(r, "renameActiveToBackup", ok)]
    /\ UNCHANGED <<repo, stagingIndex, documents, taxonomy, mu, qs>>

SwapMove(r, faults) ==
    /\ rb[r].pc = "swapMove"
    /\ \E fault \in faults :
          LET ok == RenameOk(fs, "staging", "active", fault)
          IN  /\ fs' = Rename(fs, "staging", "active", fault)
              /\ rb' = [rb EXCEPT ![r].pc = AfterMove(ok),
                                  ![r].log = Logged(r, "renameStagingToActive", ok),
                                  ![r].err = IF ok THEN @
                                             ELSE "failed to move staging index to active"]
    /\ UNCHANGED <<repo, activeIndex, stagingIndex, documents, taxonomy, mu, qs>>

SwapReopen(r, faults) ==
    /\ rb[r].pc = "swapReopen"
    /\ \E fault \in faults :
          LET ok == OpenOk(fs, "active", fault)
          IN  /\ activeIndex' = IF ok THEN OpenOn("active") ELSE activeIndex
              /\ rb' = [rb EXCEPT ![r].pc = IF ok THEN "swapNewStaging" ELSE "return",
                                  ![r].log = Logged(r, "reopenActive", ok),
                                  ![r].err = IF ok THEN @
                                             ELSE "failed to reopen active index"]
    /\ UNCHANGED <<repo, fs, stagingIndex, documents, taxonomy, mu, qs>>

\* a swap that returns after the reopen without creating a staging index
SwapWithoutNewStaging(r, faults) ==
    /\ rb[r].pc = "swapNewStaging"
    /\ rb' = [rb EXCEPT ![r].pc = "return", ![r].log = Logged(r, "newStaging", TRUE)]
    /\ UNCHANGED <<repo, fs, activeIndex, stagingIndex, documents, taxonomy, mu, qs>>

SwapNewStaging(r, faults) ==
    /\ rb[r].pc = "swapNewStaging"
    /\ \E fault \in faults :
          LET ok == NewOk(fs, "staging", fault)
          IN  /\ fs' = IF ok THEN [fs EXCEPT !["staging"] = NewGen] ELSE fs
              /\ stagingIndex' = IF ok THEN OpenOn("staging") ELSE stagingIndex
              /\ rb' = [rb EXCEPT ![r].pc = "return",
                                  ![r].log = Logged(r, "newStaging", ok),
                                  ![r].err = IF ok THEN @
                                             ELSE "failed to create new staging index"]
    /\ UNCHANGED <<repo, activeIndex, documents, taxonomy, mu, qs>>

\* an Unlock() that leaves the readers blocked in RLock() where they are
UnlockWithoutWaking(m) == [m EXCEPT !.writer = NoWriter]

\* se.mu.Unlock(): the readers blocked in RLock() hold the lock from now on
Unlock(m) == [m EXCEPT !.writer = NoWriter, !.readers = Blocked]

\* IndexDocuments returns; the deferred se.mu.Unlock() runs and the queries
\* blocked in RLock() go on. A caller that rebuilds twice calls again after
\* a first call that succeeded
ReturnIndexDocuments(r) ==
    /\ rb[r].pc = "return"
    /\ mu' = [Unlock(mu) EXCEPT !.waiting = IF rb[r].repeat = 1 /\ rb[r].err = ""
                                            THEN @ \cup {r} ELSE @]
    /\ qs' = [q \in Readers |->
                IF q \in Blocked /\ q \in Unlock(mu).readers
                THEN Acquired(q, qs[q].call, FALSE) ELSE qs[q]]
    /\ rb' = [rb EXCEPT ![r] =
                 IF rb[r].repeat = 1 /\ rb[r].err = ""
                 THEN [IdleRebuild EXCEPT
                          !.pc = "waitLock", !.docs = rb[r].docs, !.repeat = 2,
                          !.first = [okIdx |-> rb[r].okIdx,
                                     count |-> DocCount(HandleGen(activeIndex, fs)),
                                     taxonomy |-> taxonomy]]
                 ELSE IF rb[r].caller = "init"
                 THEN [IdleRebuild EXCEPT
                          !.pc = "done", !.caller = "init", !.err = rb[r].err,
                          !.last = IF rb[r].err = "" THEN rb[r].docs ELSE <<>>,
                          !.lastSrc = IF rb[r].err = "" THEN rb[r].src ELSE NoSource]
                 ELSE IF rb[r].caller = "sync"
                 THEN [IdleRebuild EXCEPT
                          !.last = IF rb[r].err = "" THEN rb[r].docs ELSE rb[r].last,
                          !.lastSrc = IF rb[r].err = "" THEN rb[r].src ELSE rb[r].lastSrc]
                 ELSE IdleRebuild]
    /\ UNCHANGED <<repo, fs, activeIndex, stagingIndex, documents, taxonomy>>

----------------------------------------------------------------------------
\* Queries

\* the order in which the engine ranks equally scored hits
IdOrder == <<"v1.7-guides-install", "v1.8-reference-aws", "v1.8-guides-install",
             "v1.8-guides-intro", "v1.8-reference-gcp", "v1.9-guides-upgrade",
             "v1.9-reference-aws", "v1.8-guides-cap", "v1.9-guides-big",
             "v1.8-guides-aws", "v1.8-guides-gcp-on-aws", "v1.8-guides-upgrade",
             "v1.8-guides-rock", "v1.8-guides-notags", "v1.8-guides-started">>

\* the score of a stored document for a match query of one term: the number
\* of times the term stands in the indexed content
Score(stored, query) ==
    IF query = "" THEN 0 ELSE Cardinality(WordOccurrences(stored.content, query))

\* the engine's match query
Matches(stored, query) == Score(stored, query) > 0

Min(a, b) == IF a < b THEN a ELSE b

\* a clamp that lets limits above the ceiling through
ClampLimitZeroOnly(limit) == IF limit = 0 THEN 5 ELSE limit

\* the result size handed to the engine
ClampLimit(limit) == IF limit = 0 \/ limit > 5 THEN 5 ELSE limit

\* activeIndex.SearchInContext: the hits ranked by descending score, at most
\* size of them, and the number of all matches
EngineSearch(stored, query, size) ==
    LET sc == [id \in DOMAIN stored |-> Score(stored[id], query)]
        Hit(id) == id \in DOMAIN stored /\ sc[id] > 0
        Pos(id) == CHOOSE i \in 1..Len(IdOrder) : IdOrder[i] = id
        Before(a, b) == sc[a] > sc[b] \/ (sc[a] = sc[b] /\ Pos(a) < Pos(b))
        all     == SortSeq(SelectSeq(IdOrder, Hit), Before)
    IN  [Hits |-> [i \in 1..Min(size, Len(all)) |-> [ID |-> all[i], Score |-> sc[all[i]]]],
         Total |-> Len(all)]

\* the ids of a hit list
HitIds(hits) == {h.ID : h \in Range(hits)}

\* the per-document cap on returned content
ContentCap == 10000

TruncationMarker == "\n\n[Content truncated]"

\* a cap that also cuts content of exactly ContentCap bytes
TruncateContentAtCap(content) ==
    IF Len(content) >= ContentCap
    THEN SubSeq(content, 1, ContentCap) \o TruncationMarker
    ELSE content

TruncateContent(content) ==
    IF Len(content) > ContentCap
    THEN SubSeq(content, 1, ContentCap) \o TruncationMarker
    ELSE content

\* strings.Split(joined, " ")
SplitTags(joined) == Split(joined, " ")

\* a hit's document from the cache, content capped
FromCache(doc) == [doc EXCEPT !.Content = TruncateContent(doc.Content)]

\* a Search that caps the content of the cached documents of its hits in place
CacheTruncatedInPlace(cache, hits) ==
    [id \in DOMAIN cache |-> IF id \in HitIds(hits) THEN FromCache(cache[id])
                             ELSE cache[id]]

\* the cache after Search resolved its hits: the capped document is a new
\* Document and the entry of the cache stays as it is
CacheAfterResolve(cache, hits) == cache

\* a hit's document rebuilt from the fields stored in the index
FromIndex(id, stored) ==
    [ID |-> id, Title |-> stored.title, Content |-> TruncateContent(stored.content),
     Path |-> "", Version |-> stored.version, Section |-> stored.section,
     Platform |-> stored.platform, Tags |-> SplitTags(stored.tags)]

\* filters without the platform
PassesFiltersIgnoringPlatform(doc, req) ==
    /\ req.Version = "" \/ doc.Version = req.Version
    /\ req.Section = "" \/ doc.Section = req.Section

PassesFilters(doc, req) ==
    /\ req.Version = "" \/ doc.Version = req.Version
    /\ req.Section = "" \/ doc.Section = req.Section
    /\ req.Platform = "" \/ doc.Platform = req.Platform

\* se.snippetLength, as main passes it to NewSearchEngine
SnippetLength == 300

\* the bound of extractContext
ContextLength == 200

\* the length a line must exceed to be taken
MinLineLength == 50

RECURSIVE FirstLineWithHeadings(_)
\* a selection that takes headings too
FirstLineWithHeadings(lines) ==
    IF lines = <<>> THEN [found |-> FALSE, line |-> ""]
    ELSE LET line == TrimSpace(Head(lines))
         IN  IF line # "" /\ Len(line) > MinLineLength
             THEN [found |-> TRUE, line |-> line]
             ELSE FirstLineWithHeadings(Tail(lines))

RECURSIVE FirstLine(_)
\* the loop over the lines of extractSnippet and extractContext: the first
\* line that, trimmed, is not empty, no heading and long enough
FirstLine(lines) ==
    IF lines = <<>> THEN [found |-> FALSE, line |-> ""]
    ELSE LET line == TrimSpace(Head(lines))
         IN  IF line # "" /\ ~HasPrefix(line, "#") /\ Len(line) > MinLineLength
             THEN [found |-> TRUE, line |-> line]
             ELSE FirstLine(Tail(lines))

\* line[:n] + "..." when the line is longer than n
CutLine(line, n) == IF Len(line) > n THEN SubSeq(line, 1, n) \o "..." ELSE line

extractSnippet(content) ==
    LET first == FirstLine(Split(content, "\n"))
    IN  IF first.found THEN CutLine(first.line, SnippetLength) ELSE ""

extractContext(content) ==
    LET first == FirstLine(Split(content, "\n"))
    IN  IF first.found THEN CutLine(first.line, ContextLength) ELSE ""

\* the SearchResult appended for a hit that passed the filters
Result(doc, hit) ==
    [Document |-> doc, Score |-> hit.Score,
     Snippet |-> extractSnippet(doc.Content), Context |-> extractContext(doc.Content)]

RECURSIVE ResolveHitsReversed(_, _, _, _, _)
\* a loop that puts each result in front of the earlier ones
ResolveHitsReversed(hits, stored, cache, req, failing) ==
    IF hits = <<>> THEN <<>>
    ELSE LET hit  == Head(hits)
             id   == hit.ID
             rest == ResolveHitsReversed(Tail(hits), stored, cache, req, failing)
         IN  IF id \notin DOMAIN cache /\ (id \in failing \/ id \notin DOMAIN stored)
             THEN rest
             ELSE LET doc == IF id \in DOMAIN cache THEN FromCache(cache[id])
                             ELSE FromIndex(id, stored[id])
                  IN  IF PassesFilters(doc, req) THEN rest \o <<Result(doc, hit)>>
                      ELSE rest

RECURSIVE ResolveHits(_, _, _, _, _)
\* the loop of Search over the hits; failing are the ids whose retrieval from
\* the index fails
ResolveHits(hits, stored, cache, req, failing) ==
    IF hits = <<>> THEN <<>>
    ELSE LET hit  == Head(hits)
             id   == hit.ID
             rest == ResolveHits(Tail(hits), stored, cache, req, failing)
         IN  IF id \notin DOMAIN cache /\ (id \in failing \/ id \notin DOMAIN stored)
             THEN rest
             ELSE LET doc == IF id \in DOMAIN cache THEN FromCache(cache[id])
                             ELSE FromIndex(id, stored[id])
                  IN  IF PassesFilters(doc, req) THEN <<Result(doc, hit)>> \o rest
                      ELSE rest

\* a failure of the engine answered like a search without matches
SearchFailedAsEmpty == [err |-> "", results |-> <<>>, total |-> 0]

\* Search returns nil and the error "search failed"
SearchFailed == [err |-> "search failed", results |-> <<>>, total |-> 0]

\* the requests of the queries that run next to rebuilds
SearchRequests ==
    {[NoRequest EXCEPT !.Query = "talos", !.Version = v] : v \in {"", "v1.8"}}

QueryCalls ==
    {[kind |-> "Search", req |-> rq, id |-> "", tool |-> NoArgs] : rq \in SearchRequests}
    \cup {[kind |-> "GetDocument", req |-> NoRequest, id |-> id, tool |-> NoArgs] :
             id \in DocIds}
    \cup {[kind |-> "GetTaxonomy", req |-> NoRequest, id |-> "", tool |-> NoArgs],
          [kind |-> "GetStats", req |-> NoRequest, id |-> "", tool |-> NoArgs]}

\* a query is called and se.mu.RLock() returns
RLock(q, calls) ==
    /\ qs[q].pc = "idle"
    /\ CanRLock(mu)
    /\ mu' = [mu EXCEPT !.readers = @ \cup {q}]
    /\ \E c \in calls : qs' = [qs EXCEPT ![q] = Acquired(q, c, Rebuilding # {})]
    /\ UNCHANGED <<repo, fs, activeIndex, stagingIndex, documents, taxonomy, rb>>

\* a query is called while a rebuild holds the lock or is blocked in Lock():
\* se.mu.RLock() blocks
BlockRLock(q, calls) ==
    /\ qs[q].pc = "idle"
    /\ ~CanRLock(mu)
    /\ \E c \in calls :
          qs' = [qs EXCEPT ![q] = [IdleQuery EXCEPT !.pc = "waitRLock", !.call = c,
                                                    !.held = qs[q].held]]
    /\ UNCHANGED <<repo, fs, activeIndex, stagingIndex, documents, taxonomy, mu, rb>>

\* Search runs the match query on the active handle
SearchExec(q, faults) ==
    /\ qs[q].pc = "exec"
    /\ \E fault \in faults :
          LET g   == HandleGen(activeIndex, fs)
              req == qs[q].call.req
          IN  IF fault \/ ~Exists(g)
              THEN qs' = [qs EXCEPT ![q].pc = "ret", ![q].resp = SearchFailed]
              ELSE LET res == EngineSearch(g.docs, req.Query, ClampLimit(req.Limit))
                   IN  qs' = [qs EXCEPT ![q].pc = "resolve",
                                        ![q].readLoc = activeIndex.loc,
                                        ![q].hits = res.Hits,
                                        ![q].resp = [NoResponse EXCEPT !.total = res.Total]]
    /\ UNCHANGED <<repo, fs, activeIndex, stagingIndex, documents, taxonomy, mu, rb>>

\* the retrievals from the index that may fail: those of the hits the cache
\* does not hold
Failing(hits, faults) ==
    IF TRUE \in faults THEN SUBSET (HitIds(hits) \ DOMAIN documents) ELSE {{}}

\* Search resolves its hits against the cache or the index and filters them
SearchResolve(q, faults) ==
    /\ qs[q].pc = "resolve"
    /\ \E failing \in Failing(qs[q].hits, faults) :
          qs' = [qs EXCEPT ![q].pc = "ret",
                           ![q].failed = failing,
                           ![q].resp.results =
                               ResolveHits(qs[q].hits, HandleGen(activeIndex, fs).docs,
                                           documents, qs[q].call.req, failing)]
    /\ documents' = CacheAfterResolve(documents, qs[q].hits)
    /\ UNCHANGED <<repo, fs, activeIndex, stagingIndex, taxonomy, mu, rb>>

\* GetDocument, GetTaxonomy and GetStats read under the lock
Read(q) ==
    /\ qs[q].pc = "read"
    /\ LET c == qs[q].call
       IN  qs' = [qs EXCEPT ![q].pc = "ret",
                    ![q].readLoc = IF c.kind = "GetStats" THEN activeIndex.loc ELSE "none",
                    ![q].held = IF c.kind = "GetTaxonomy" /\ c.id # ""
                                THEN GetTaxonomy(taxonomy) ELSE @,
                    ![q].resp =
                       CASE c.kind = "GetDocument" ->
                              [err |-> "", total |-> 0,
                               results |-> IF c.id \in DOMAIN documents
                                           THEN <<documents[c.id]>> ELSE <<>>]
                         [] c.kind = "GetTaxonomy" ->
                              [err |-> "", total |-> 0, results |-> <<taxonomy>>]
                         [] c.kind = "GetStats" ->
                              [err |-> "", total |-> Cardinality(DOMAIN documents),
                               results |-> <<[versions  |-> Cardinality(taxonomy.Versions),
                                              sections  |-> Cardinality(taxonomy.Sections),
                                              platforms |-> Cardinality(taxonomy.Platforms),
                                              tags      |-> Cardinality(taxonomy.Tags)]>>]]
    /\ UNCHANGED <<repo, fs, activeIndex, stagingIndex, documents, taxonomy, mu, rb>>

\* the query returns; the deferred se.mu.RUnlock() runs
ReturnQuery(q) ==
    /\ qs[q].pc = "ret"
    /\ mu' = [mu EXCEPT !.readers = @ \ {q}]
    /\ qs' = [qs EXCEPT ![q] = [IdleQuery EXCEPT !.held = qs[q].held]]
    /\ UNCHANGED <<repo, fs, activeIndex, stagingIndex, documents, taxonomy, rb>>

----------------------------------------------------------------------------
\* The corpus of the searches: documents whose lines and contents lie on
\* both sides of the bounds of Search

\* a line of n bytes that holds the word talos k times
TalosLine(k, n) == Repeat("talos ", k) \o Repeat("x", n - 6 * k)

\* the document of the extraction scenario
S1 == [ID |-> "v1.8-guides-install", Title |-> "Installing",
       Content |-> "# Installing\nRun the installer.", Path |-> "install",
       Version |-> "v1.8", Section |-> "Guides", Platform |-> "",
       Tags |-> <<"install">>]

\* no line longer than MinLineLength
S2 == [ID |-> "v1.8-guides-intro", Title |-> "Intro",
       Content |-> "# Intro\nTalos, talos, talos, talos, talos.", Path |-> "guides/intro",
       Version |-> "v1.8", Section |-> "Guides", Platform |-> "aws",
       Tags |-> <<"guides", "intro">>]

\* a long heading, then an indented line between ContextLength and SnippetLength
S3 == [ID |-> "v1.8-reference-gcp", Title |-> "GCP",
       Content |-> "\n  # " \o TalosLine(1, 60) \o "\n   " \o TalosLine(1, 250) \o "  \nend",
       Path |-> "reference/gcp",
       Version |-> "v1.8", Section |-> "Reference", Platform |-> "gcp",
       Tags |-> <<"reference", "gcp">>]

\* a line of exactly MinLineLength, then a line longer than SnippetLength
S4 == [ID |-> "v1.9-guides-upgrade", Title |-> "Upgrade",
       Content |-> TalosLine(1, 50) \o "\n" \o TalosLine(2, 350),
       Path |-> "guides/upgrade",
       Version |-> "v1.9", Section |-> "Guides", Platform |-> "",
       Tags |-> <<"guides", "upgrade">>]

\* a line of exactly SnippetLength
S5 == [ID |-> "v1.9-reference-aws", Title |-> "AWS",
       Content |-> "# AWS\n" \o TalosLine(4, 300), Path |-> "reference/aws",
       Version |-> "v1.9", Section |-> "Reference", Platform |-> "aws",
       Tags |-> <<"reference", "aws">>]

\* content longer than ContentCap
S6 == [ID |-> "v1.9-guides-big", Title |-> "Big",
       Content |-> "# Big\n" \o TalosLine(7, 9000) \o "\n" \o TalosLine(1, 2000),
       Path |-> "guides/big",
       Version |-> "v1.9", Section |-> "Guides", Platform |-> "",
       Tags |-> <<"guides", "big">>]

\* content of exactly ContentCap bytes
S7 == [ID |-> "v1.8-guides-cap", Title |-> "Cap",
       Content |-> "# Cap\n" \o TalosLine(1, ContentCap - 6), Path |-> "guides/cap",
       Version |-> "v1.8", Section |-> "Guides", Platform |-> "aws",
       Tags |-> <<"guides", "cap">>]

SearchUniverse == {S1, S2, S3, S4, S5, S6, S7}

SearchIds == {d.ID : d \in SearchUniverse}

\* the index of a list of documents
IndexOf(docs) ==
    [id \in {d.ID : d \in Range(docs)} |->
        IndexDoc(CHOOSE d \in Range(docs) : d.ID = id)]

\* the lists the rebuilds of the search corpus are called with
SearchDocLists == {<<S1>>, <<S1, S2, S3, S4, S5, S6, S7>>}

\* the indices an earlier run of the process may have left on disk
SearchStoredSets == {EmptyMap, IndexOf(<<S1, S2, S4, S6, S7>>)}

----------------------------------------------------------------------------
\* The sync_documentation tool and the clones it works on

ScenarioContent == "# Installing\nRun the installer."

MdxContent == "  # Install (mdx)\nThe CLI way."

AwsContent == "Talos on AWS: Configuration and networking."

K8sContent == "# Kubernetes\nNot Talos."

\* the scenario: one tab, one version, one group, one page
NavScenario ==
    [Tabs |-> <<[Tab |-> "Talos", Versions |-> <<
                   [Version |-> "v1.8", Groups |-> <<
                       [Group |-> "Guides", Pages |-> <<PageRef("install")>>]>>]>>]>>]

\* a tab before the Talos tab; nested groups, two versions, two groups
NavTwoTabs ==
    [Tabs |-> <<[Tab |-> "Kubernetes", Versions |-> <<
                   [Version |-> "v1.8", Groups |-> <<
                       [Group |-> "Guides",
                        Pages |-> <<PageRef("k8s/intro"), PageRef("install")>>]>>]>>],
                [Tab |-> "Talos", Versions |-> <<
                   [Version |-> "v1.8", Groups |-> <<
                       [Group |-> "Guides",
                        Pages |-> <<PageRef("install"),
                                    NestedGroup("Platforms",
                                        <<PageRef("platforms/AWS"),
                                          NestedGroup("Deep", <<PageRef("install")>>)>>),
                                    OtherItem>>]>>],
                   [Version |-> "v1.7", Groups |-> <<
                       [Group |-> "Guides", Pages |-> <<PageRef("install")>>],
                       [Group |-> "Reference", Pages |-> <<PageRef("platforms/AWS")>>]>>]>>]>>]

\* no tab named Talos
NavNoTalos ==
    [Tabs |-> <<[Tab |-> "talos", Versions |-> <<
                   [Version |-> "v1.8", Groups |-> <<
                       [Group |-> "Guides", Pages |-> <<PageRef("install")>>]>>]>>],
                [Tab |-> "Omni", Versions |-> <<
                   [Version |-> "v1.8", Groups |-> <<
                       [Group |-> "Guides", Pages |-> <<PageRef("k8s/intro")>>]>>]>>]>>]

Navs == {NavScenario, NavTwoTabs, NavNoTalos, [Tabs |-> <<>>]}

\* the candidate files <<.mdx, .md>> of the pages
InstallFiles ==
    {<<Missing, Missing>>, <<File(MdxContent), Missing>>, <<Missing, File(ScenarioContent)>>,
     <<File(MdxContent), File(ScenarioContent)>>, <<File(""), File(ScenarioContent)>>,
     <<Missing, File("")>>, <<Unreadable, File(ScenarioContent)>>, <<Missing, Unreadable>>}

AwsFiles == {<<Missing, Missing>>, <<File(AwsContent), Missing>>, <<Missing, File(AwsContent)>>}

K8sFiles == {<<Missing, Missing>>, <<Missing, File(K8sContent)>>}

FileSystems ==
    {[name \in {"public/install.mdx", "public/install.md",
                "public/platforms/AWS.mdx", "public/platforms/AWS.md",
                "public/k8s/intro.mdx", "public/k8s/intro.md"} |->
         CASE name = "public/install.mdx"       -> i[1]
           [] name = "public/install.md"        -> i[2]
           [] name = "public/platforms/AWS.mdx" -> a[1]
           [] name = "public/platforms/AWS.md"  -> a[2]
           [] name = "public/k8s/intro.mdx"     -> k[1]
           [] name = "public/k8s/intro.md"      -> k[2]] :
        i \in InstallFiles, a \in AwsFiles, k \in K8sFiles}

\* the clones a pull may leave
Repos == {[nav |-> n, files |-> f, pulls |-> 0, cloned |-> TRUE] : n \in Navs, f \in FileSystems}

\* the clones the process may start on
StartRepos ==
    {EmptyRepo} \cup
    {c \in Repos : /\ c.nav = NavScenario
                   /\ c.files["public/platforms/AWS.mdx"] = Missing
                   /\ c.files["public/platforms/AWS.md"] = Missing
                   /\ c.files["public/k8s/intro.md"] = Missing}

\* a handler that goes on to the rebuild whatever the provider returned
AfterProviderIgnoringError(err, back) == "waitLock"

\* where a caller of the provider goes: on to IndexDocuments, or back to its
\* own caller with the error
AfterProvider(err, back) == IF err = "" THEN "waitLock" ELSE back

\* the results of ForceSync, which is pollForUpdates: nil with nothing
\* fetched when the last sync is less than five minutes old; a nil pointer
\* dereference in df.gitRepo.Remote when initRepository found the checkout
\* on disk and left gitRepo nil (the server recovers the panic into an error
\* result); the error of remote.Fetch; nil although the first pullLatest
\* failed; the error of the second pullLatest in syncWithCommit; nil after
\* both. fetched: remote.Fetch ran without error; pulled: a pullLatest
\* updated the worktree
ForceSyncResults(cloned, faults) ==
    {[err |-> "", fetched |-> FALSE, pulled |-> FALSE]}
    \cup (IF ~cloned
          THEN {[err |-> "panic", fetched |-> FALSE, pulled |-> FALSE]}
          ELSE {[err |-> "", fetched |-> TRUE, pulled |-> TRUE]}
               \cup (IF TRUE \in faults
                     THEN {[err |-> "Failed to sync repository", fetched |-> FALSE, pulled |-> FALSE],
                           [err |-> "", fetched |-> TRUE, pulled |-> FALSE],
                           [err |-> "Failed to sync repository", fetched |-> TRUE, pulled |-> TRUE]}
                     ELSE {}))

\* handleSyncDocumentation up to its call of IndexDocuments: ForceSync,
\* GetNavigation, ExtractDocuments; the call then blocks in se.mu.Lock().
\* The clone is as a pull left it or, when ForceSync did not pull, as it was
handleSyncDocumentation(r, repos, faults) ==
    /\ rb[r].pc = "idle"
    /\ repo.pulls < MaxSyncs
    /\ \E sync \in ForceSyncResults(repo.cloned, faults), fNav \in faults :
       \E pulled \in IF sync.pulled THEN repos \cup {repo} ELSE {repo} :
          LET next == [pulled EXCEPT !.pulls = repo.pulls + 1, !.cloned = repo.cloned]
              ex   == ExtractDocuments(next.nav, next.files)
              err  == IF sync.err # "" THEN sync.err
                      ELSE IF fNav THEN "Failed to get navigation"
                      ELSE IF ex.err # "" THEN "Failed to extract documents"
                      ELSE ""
              pc   == AfterProvider(err, "syncReturn")
          IN  /\ repo' = next
              /\ rb' = [rb EXCEPT ![r].pc = pc,
                                  ![r].caller = "sync",
                                  ![r].err = err,
                                  ![r].fetched = sync.fetched,
                                  ![r].docs = IF err = "" THEN ex.documents ELSE <<>>,
                                  ![r].src = IF err = ""
                                             THEN [nav |-> next.nav, files |-> next.files]
                                             ELSE NoSource]
              /\ mu' = IF pc = "waitLock" THEN [mu EXCEPT !.waiting = @ \cup {r}] ELSE mu
    /\ UNCHANGED <<fs, activeIndex, stagingIndex, documents, taxonomy, qs>>

\* the handler returns its error result without a rebuild
ReturnSync(r) ==
    /\ rb[r].pc = "syncReturn"
    /\ rb' = [rb EXCEPT ![r] = [IdleRebuild EXCEPT !.last = rb[r].last,
                                                   !.lastSrc = rb[r].lastSrc]]
    /\ UNCHANGED <<repo, fs, activeIndex, stagingIndex, documents, taxonomy, mu, qs>>

----------------------------------------------------------------------------
\* The start of the server: initializeDocuments runs in a goroutine of its
\* own while the tool handlers are served

\* what se.activeIndex.DocCount() may return to a caller that does not hold
\* se.mu: the count of the index behind the handle, an error when the handle
\* is closed and, while a rebuild holds the lock and swaps the handle, the
\* same of the handle the rebuild found
DocCounts ==
    LET Of(open, g) == IF open /\ Exists(g) THEN [err |-> FALSE, count |-> DocCount(g)]
                       ELSE [err |-> TRUE, count |-> 0]
    IN  {Of(activeIndex.open, HandleGen(activeIndex, fs))}
        \cup {Of(rb[w].pre.open, rb[w].pre.active) : w \in Rebuilding}
        \cup {[err |-> TRUE, count |-> 0] : w \in Rebuilding}

\* initializeDocuments up to its call of IndexDocuments: the count of the
\* active index, read without the lock, then GetNavigation and
\* ExtractDocuments on the clone
initializeDocuments(r, faults) ==
    /\ rb[r].pc = "start"
    /\ \E seen \in DocCounts, fNav \in faults :
          LET ex   == ExtractDocuments(repo.nav, repo.files)
              skip == ~seen.err /\ seen.count > 0
              err  == IF skip THEN ""
                      ELSE IF fNav THEN "failed to get navigation"
                      ELSE IF ex.err # "" THEN "failed to extract documents"
                      ELSE IF Len(ex.documents) = 0 THEN "no documents found"
                      ELSE ""
              pc   == IF skip THEN "done" ELSE AfterProvider(err, "done")
          IN  /\ rb' = [rb EXCEPT ![r].pc = pc,
                                  ![r].err = err,
                                  ![r].docs = IF skip \/ err # "" THEN <<>>
                                              ELSE ex.documents,
                                  ![r].src = IF skip \/ err # "" THEN NoSource
                                             ELSE [nav |-> repo.nav, files |-> repo.files]]
              /\ mu' = IF pc = "waitLock" THEN [mu EXCEPT !.waiting = @ \cup {r}] ELSE mu
    /\ UNCHANGED <<repo, fs, activeIndex, stagingIndex, documents, taxonomy, qs>>

----------------------------------------------------------------------------
\* The pages of the extraction: contents whose headings, keywords and paths
\* lie on both sides of the tests of extractTitle, extractPlatformFromPath
\* and extractTags

\* a level-2 heading, then two level-1 headings
TitleSecond == "## Overview\n# Real Title\n# Second\nStorage, API, Kernel."

\* an indented level-1 heading below a line of text
TitleIndented == "intro text\n  # Indented  \nClick for the Upgrade."

\* no level-1 heading: a deeper one, a marker without a space, a bare marker
TitleNone == "## Only deeper\n#NoSpace\n# \nplain"

TitleTwoSpaces == "#  Two spaces\nInstallation notes."

\* a second page about the installer
SecondInstall == "# Second\nThe installer, again."

ExtractContents ==
    {ScenarioContent, TitleSecond, TitleIndented, TitleNone, TitleTwoSpaces, AwsContent}

ExtractPaths ==
    {"install", "platforms/AWS", "cloud/gcp-on-aws", "API/api/Intro", "guides//Upgrade",
     "storage/Rock"}

\* a manifest of one tab, one version and one group with the pages
NavOfPages(pages) ==
    [Tabs |-> <<[Tab |-> "Talos", Versions |-> <<
                   [Version |-> "v1.8", Groups |-> <<
                       [Group |-> "Guides", Pages |-> pages]>>]>>]>>]

MdName(path) == "public/" \o path \o ".md"

\* clones of one page, and clones of two pages whose ids collide
ExtractRepos ==
    {[nav |-> NavOfPages(<<PageRef(p)>>),
      files |-> [name \in {MdName(p)} |-> File(c)],
      pulls |-> 0, cloned |-> TRUE] : p \in ExtractPaths, c \in ExtractContents}
    \cup
    {[nav |-> NavOfPages(<<PageRef(ps[1]), PageRef(ps[2])>>),
      files |-> [name \in {MdName("install"), MdName("guides/install")} |->
                   IF name = MdName("install") THEN File(ScenarioContent)
                   ELSE File(SecondInstall)],
      pulls |-> 0, cloned |-> TRUE] : ps \in {<<"install", "guides/install">>, <<"guides/install", "install">>}}

\* the queries that run next to the extraction
ExtractCalls ==
    {[kind |-> "Search", req |-> [NoRequest EXCEPT !.Query = "installer"], id |-> "",
      tool |-> NoArgs],
     [kind |-> "GetDocument", req |-> NoRequest, id |-> "v1.8-guides-install",
      tool |-> NoArgs]}

----------------------------------------------------------------------------
\* The search_talos_docs tool

\* the limit of handleSearchDocs when the caller supplies none
DefaultLimit == 20

\* the SearchRequest that handleSearchDocs builds from the tool arguments
handleSearchDocs(args) ==
    [Query |-> args.query, Version |-> args.version, Section |-> args.section,
     Platform |-> args.platform,
     Limit |-> IF args.limit # 0 THEN args.limit ELSE DefaultLimit]

SearchQueries == {"talos", "installer"}

\* the filters of the searches: none, one, two
SearchFilters ==
    {[version |-> "",     section |-> "",       platform |-> ""],
     [version |-> "v1.8", section |-> "",       platform |-> ""],
     [version |-> "",     section |-> "Guides", platform |-> "aws"],
     [version |-> "v1.9", section |-> "Guides", platform |-> ""]}

\* the arguments of the tool calls
ToolArgs ==
    {[query |-> qy, version |-> f.version, section |-> f.section,
      platform |-> f.platform, limit |-> l] :
        qy \in SearchQueries, f \in SearchFilters, l \in {0, 1, 5, 6, 10}}

\* the requests of callers of Search other than the tool
DirectRequests ==
    {[Query |-> qy, Version |-> f.version, Section |-> f.section,
      Platform |-> f.platform, Limit |-> l] :
        qy \in SearchQueries, f \in SearchFilters, l \in {0, 3}}

SearchCalls ==
    {[kind |-> "Search", req |-> handleSearchDocs(a), id |-> "", tool |-> a] :
        a \in ToolArgs}
    \cup {[kind |-> "Search", req |-> rq, id |-> "", tool |-> NoArgs] :
             rq \in DirectRequests}
    \cup {[kind |-> "GetDocument", req |-> NoRequest, id |-> S1.ID, tool |-> NoArgs],
          [kind |-> "GetTaxonomy", req |-> NoRequest, id |-> "", tool |-> NoArgs],
          [kind |-> "GetStats", req |-> NoRequest, id |-> "", tool |-> NoArgs]}

\* the engine after NewSearchEngine on one of the stored indices, next to
\* one of the clones
InitOn(storedSets, repos) ==
    /\ \E stored \in storedSets :
          fs = [l \in Locs |->
                  CASE l = "active"  -> [exists |-> TRUE, docs |-> stored]
                    [] l = "staging" -> NewGen
                    [] l = "backup"  -> Absent]
    /\ activeIndex = OpenOn("active")
    /\ stagingIndex = OpenOn("staging")
    /\ documents = EmptyMap
    /\ taxonomy = EmptyTaxonomy
    /\ mu = [writer |-> NoWriter, readers |-> {}, waiting |-> {}]
    /\ rb = [r \in Rebuilders |-> IdleRebuild]
    /\ qs = [q \in Readers |-> IdleQuery]
    /\ repo \in repos

----------------------------------------------------------------------------
\* Specifications

Rebuild(r, lists, twice, faults) ==
    \/ CallIndexDocuments(r, twice)
    \/ Lock(r, lists)
    \/ ClearStaging(r, faults)
    \/ IndexOne(r, faults)
    \/ SwapClose(r)
    \/ SwapRemoveBackup(r, faults)
    \/ SwapBackup(r, faults)
    \/ SwapMove(r, faults)
    \/ SwapReopen(r, faults)
    \/ SwapNewStaging(r, faults)
    \/ ReturnIndexDocuments(r)

Query(q, calls, faults) ==
    \/ RLock(q, calls)
    \/ SearchExec(q, faults)
    \/ SearchResolve(q, faults)
    \/ Read(q)
    \/ ReturnQuery(q)

\* rebuilds and queries of concurrent goroutines
Next ==
    \/ \E r \in Rebuilders : Rebuild(r, ShortDocLists, {FALSE}, BOOLEAN)
    \/ \E q \in Readers : Query(q, QueryCalls, BOOLEAN)

Spec == Init /\ [][Next]_vars

\* one goroutine that rebuilds again and again
NextRebuild == Rebuild("r1", DocLists, {FALSE}, BOOLEAN)

SpecRebuild == Init /\ [][NextRebuild]_vars

\* one goroutine whose callers may rebuild twice with the same list
NextTwice == Rebuild("r1", DocLists, BOOLEAN, BOOLEAN)

SpecTwice == Init /\ [][NextTwice]_vars

\* one goroutine that rebuilds again and again, no call into the operating
\* system or the engine failing
NextNoFault == Rebuild("r1", DocLists, {FALSE}, {FALSE})

SpecNoFault == Init /\ [][NextNoFault]_vars

\* searches of the search corpus, between rebuilds that do not fail
InitSearch == InitOn(SearchStoredSets, {EmptyRepo})

NextSearch ==
    \/ Rebuild("r1", SearchDocLists, {FALSE}, {FALSE})
    \/ Query("q1", SearchCalls, BOOLEAN)

SpecSearch == InitSearch /\ [][NextSearch]_vars

\* sync_documentation requests: extraction from the clone, then the rebuild
InitSync == InitOn({EmptyMap}, StartRepos)

NextSync ==
    \/ handleSyncDocumentation("r1", Repos, BOOLEAN)
    \/ ReturnSync("r1")
    \/ Lock("r1", {rb["r1"].docs})
    \/ ClearStaging("r1", {FALSE})
    \/ IndexOne("r1", {FALSE})
    \/ SwapClose("r1")
    \/ SwapRemoveBackup("r1", {FALSE})
    \/ SwapBackup("r1", {FALSE})
    \/ SwapMove("r1", {FALSE})
    \/ SwapReopen("r1", {FALSE})
    \/ SwapNewStaging("r1", {FALSE})
    \/ ReturnIndexDocuments("r1")

SpecSync == InitSync /\ [][NextSync]_vars

\* sync_documentation requests on the pages of the extraction, and queries
InitExtract == InitOn({EmptyMap}, {EmptyRepo})

NextExtract ==
    \/ handleSyncDocumentation("r1", ExtractRepos, {FALSE})
    \/ Lock("r1", {rb["r1"].docs})
    \/ ClearStaging("r1", {FALSE})
    \/ IndexOne("r1", {FALSE})
    \/ SwapClose("r1")
    \/ SwapRemoveBackup("r1", {FALSE})
    \/ SwapBackup("r1", {FALSE})
    \/ SwapMove("r1", {FALSE})
    \/ SwapReopen("r1", {FALSE})
    \/ SwapNewStaging("r1", {FALSE})
    \/ ReturnIndexDocuments("r1")
    \/ Query("q1", ExtractCalls, {FALSE})

SpecExtract == InitExtract /\ [][NextExtract]_vars

\* a manifest with groups nested three deep, pages of the parent before and
\* after a nested group, and the same page at several depths
NavNested ==
    [Tabs |-> <<[Tab |-> "Talos", Versions |-> <<
                   [Version |-> "v1.8", Groups |-> <<
                       [Group |-> "Guides",
                        Pages |-> <<PageRef("install"),
                                    NestedGroup("Platforms",
                                        <<PageRef("platforms/AWS"),
                                          NestedGroup("Deep",
                                              <<PageRef("install"),
                                                NestedGroup("Deeper",
                                                    <<PageRef("storage/Rock")>>)>>),
                                          PageRef("install")>>),
                                    OtherItem,
                                    PageRef("guides//Upgrade")>>],
                       [Group |-> "Reference",
                        Pages |-> <<NestedGroup("API", <<PageRef("API/api/Intro")>>),
                                    PageRef("install")>>]>>]>>]>>]

\* a nested group first, a nested group without pages, a nested group named
\* as its parent, and a second version
NavNestedFirst ==
    [Tabs |-> <<[Tab |-> "Talos", Versions |-> <<
                   [Version |-> "v1.9", Groups |-> <<
                       [Group |-> "Guides",
                        Pages |-> <<NestedGroup("Empty", <<>>),
                                    NestedGroup("Guides", <<PageRef("install")>>),
                                    PageRef("storage/Rock")>>]>>],
                   [Version |-> "v1.8", Groups |-> <<
                       [Group |-> "Guides",
                        Pages |-> <<NestedGroup("Cloud",
                                        <<NestedGroup("AWS", <<PageRef("platforms/AWS")>>)>>),
                                    PageRef("install")>>]>>]>>]>>]

NestedNavs == {NavNested, NavNestedFirst, NavScenario}

NestedPaths == {"install", "platforms/AWS", "storage/Rock", "guides//Upgrade", "API/api/Intro"}

\* every page has its file; the install page has none; only it has one
NestedFileSets ==
    LET content == [name \in {MdName(p) : p \in NestedPaths} |->
                       IF name = MdName("install") THEN File(ScenarioContent)
                       ELSE IF name = MdName("platforms/AWS") THEN File(AwsContent)
                       ELSE IF name = MdName("storage/Rock") THEN File(TitleSecond)
                       ELSE IF name = MdName("guides//Upgrade") THEN File(TitleIndented)
                       ELSE File(TitleNone)]
    IN  {content,
         [content EXCEPT ![MdName("install")] = Missing],
         [name \in {MdName("install")} |-> File(ScenarioContent)],
         [content EXCEPT ![MdName("storage/Rock")] = File("")]}

NestedRepos == {[nav |-> n, files |-> f, pulls |-> 0, cloned |-> TRUE] : n \in NestedNavs, f \in NestedFileSets}

InitNested == InitOn({EmptyMap}, {EmptyRepo})

NextNested ==
    \/ handleSyncDocumentation("r1", NestedRepos, BOOLEAN)
    \/ ReturnSync("r1")
    \/ Lock("r1", {rb["r1"].docs})
    \/ ClearStaging("r1", {FALSE})
    \/ IndexOne("r1", {FALSE})
    \/ SwapClose("r1")
    \/ SwapRemoveBackup("r1", {FALSE})
    \/ SwapBackup("r1", {FALSE})
    \/ SwapMove("r1", {FALSE})
    \/ SwapReopen("r1", {FALSE})
    \/ SwapNewStaging("r1", {FALSE})
    \/ ReturnIndexDocuments("r1")

SpecNested == InitNested /\ [][NextNested]_vars

\* rebuilds and queries of concurrent goroutines that are scheduled fairly:
\* a goroutine that can take a step takes one, a Lock() that can return
\* again and again does return (sync.Mutex hands the lock to a waiter that
\* has been passed over), and a query may be called while the lock is not free
FairLists == {<<D1>>}

\* a search for a word that no document holds, and a read of the statistics
FairCalls ==
    {[kind |-> "Search", req |-> [NoRequest EXCEPT !.Query = "kubernetes"], id |-> "",
      tool |-> NoArgs],
     [kind |-> "GetStats", req |-> NoRequest, id |-> "", tool |-> NoArgs]}

InitFair == InitOn({EmptyMap}, {EmptyRepo})

\* the steps of IndexDocuments once se.mu.Lock() has returned; the creation
\* of staging and the move of staging to active may fail
AfterLock(r) ==
    \/ ClearStaging(r, BOOLEAN)
    \/ IndexOne(r, {FALSE})
    \/ SwapClose(r)
    \/ SwapRemoveBackup(r, {FALSE})
    \/ SwapBackup(r, {FALSE})
    \/ SwapMove(r, BOOLEAN)
    \/ SwapReopen(r, {FALSE})
    \/ SwapNewStaging(r, {FALSE})
    \/ ReturnIndexDocuments(r)

\* the steps of a query once se.mu.RLock() has returned; the engine may fail
\* the search
AfterRLock(q) ==
    \/ SearchExec(q, BOOLEAN)
    \/ SearchResolve(q, {FALSE})
    \/ Read(q)
    \/ ReturnQuery(q)

NextFair ==
    \/ \E r \in Rebuilders :
          \/ CallIndexDocuments(r, {FALSE})
          \/ Lock(r, FairLists)
          \/ AfterLock(r)
    \/ \E q \in Readers :
          \/ RLock(q, FairCalls)
          \/ BlockRLock(q, FairCalls)
          \/ AfterRLock(q)

Fairness ==
    /\ \A r \in Rebuilders : SF_vars(Lock(r, FairLists)) /\ WF_vars(AfterLock(r))
    /\ \A q \in Readers : WF_vars(AfterRLock(q))

SpecFair == InitFair /\ [][NextFair]_vars /\ Fairness

\* searches that resolve their hits from the cache after a rebuild and from
\* the index an earlier run left, on documents without tags, with a tag that
\* holds a space, and with plain tags
T0 == [ID |-> "v1.8-guides-notags", Title |-> "No tags",
       Content |-> "# No tags\nTalos without tags.", Path |-> "",
       Version |-> "v1.8", Section |-> "Guides", Platform |-> "",
       Tags |-> <<>>]

T1 == [ID |-> "v1.8-guides-started", Title |-> "Getting Started",
       Content |-> "# Getting Started\nTalos in five minutes.",
       Path |-> "guides/Getting Started",
       Version |-> "v1.8", Section |-> "Guides", Platform |-> "",
       Tags |-> <<"guides", "getting started">>]

TagDocLists == {<<S2>>, <<T0, S2>>, <<T1, S2>>}

TagCalls ==
    {[kind |-> "Search", req |-> [NoRequest EXCEPT !.Query = "talos", !.Platform = pf],
      id |-> "", tool |-> NoArgs] : pf \in {"", "aws"}}
    \cup {[kind |-> "GetDocument", req |-> NoRequest, id |-> T0.ID, tool |-> NoArgs]}

InitTags == InitOn({EmptyMap, IndexOf(<<T0, S2>>), IndexOf(<<T1, S2>>)}, {EmptyRepo})

NextTags ==
    \/ Rebuild("r1", TagDocLists, {FALSE}, {FALSE})
    \/ Query("q1", TagCalls, BOOLEAN)

SpecTags == InitTags /\ [][NextTags]_vars

\* the four reading operations between rebuilds of short and long documents
ReadDocLists == {<<S1>>, <<S6, S2>>}

ReadCalls ==
    {[kind |-> "Search", req |-> [NoRequest EXCEPT !.Query = "talos"], id |-> "",
      tool |-> NoArgs],
     [kind |-> "GetDocument", req |-> NoRequest, id |-> S6.ID, tool |-> NoArgs],
     [kind |-> "GetTaxonomy", req |-> NoRequest, id |-> "get_release_notes",
      tool |-> NoArgs],
     [kind |-> "GetStats", req |-> NoRequest, id |-> "", tool |-> NoArgs]}

InitRead == InitOn({EmptyMap, IndexOf(<<S1>>)}, {EmptyRepo})

NextRead ==
    \/ Rebuild("r1", ReadDocLists, {FALSE}, {FALSE})
    \/ Query("q1", ReadCalls, {FALSE})

SpecRead == InitRead /\ [][NextRead]_vars

\* the indices an earlier run of the process may have left on disk
StartStoredSets == {EmptyMap, IndexOf(<<S1>>)}

\* the clones a pull may leave next to the start-up
StartPulls ==
    {c \in Repos : /\ c.nav \in {NavScenario, NavTwoTabs}
                   /\ c.files["public/install.mdx"] = Missing
                   /\ c.files["public/install.md"] = File(ScenarioContent)
                   /\ c.files["public/platforms/AWS.mdx"] = Missing
                   /\ c.files["public/k8s/intro.md"] = Missing}

\* the queries that run next to the start-up
StartCalls ==
    {[kind |-> "Search", req |-> [NoRequest EXCEPT !.Query = "installer"], id |-> "",
      tool |-> NoArgs],
     [kind |-> "GetStats", req |-> NoRequest, id |-> "", tool |-> NoArgs]}

\* the process after NewTalosDocMCPServer and the go statement of Start: r1
\* is the goroutine of initializeDocuments, r2 serves sync_documentation
InitStart ==
    /\ \E stored \in StartStoredSets :
          fs = [l \in Locs |->
                  CASE l = "active"  -> [exists |-> TRUE, docs |-> stored]
                    [] l = "staging" -> NewGen
                    [] l = "backup"  -> Absent]
    /\ activeIndex = OpenOn("active")
    /\ stagingIndex = OpenOn("staging")
    /\ documents = EmptyMap
    /\ taxonomy = EmptyTaxonomy
    /\ mu = [writer |-> NoWriter, readers |-> {}, waiting |-> {}]
    /\ rb = [r \in Rebuilders |->
               IF r = "r1" THEN [IdleRebuild EXCEPT !.pc = "start", !.caller = "init"]
               ELSE IdleRebuild]
    /\ qs = [q \in Readers |-> IdleQuery]
    /\ repo \in StartRepos

NextStart ==
    \/ initializeDocuments("r1", BOOLEAN)
    \/ handleSyncDocumentation("r2", StartPulls, BOOLEAN)
    \/ ReturnSync("r2")
    \/ \E r \in {"r1", "r2"} :
          \/ Lock(r, {rb[r].docs})
          \/ ClearStaging(r, {FALSE})
          \/ IndexOne(r, {FALSE})
          \/ SwapClose(r)
          \/ SwapRemoveBackup(r, {FALSE})
          \/ SwapBackup(r, {FALSE})
          \/ SwapMove(r, {FALSE})
          \/ SwapReopen(r, {FALSE})
          \/ SwapNewStaging(r, {FALSE})
          \/ ReturnIndexDocuments(r)
    \/ Query("q1", StartCalls, {FALSE})

SpecStart == InitStart /\ [][NextStart]_vars

----------------------------------------------------------------------------
\* Properties of the concurrent specification Spec

\* every response Search can compute from one state of the engine
PossibleResponses(snap, req) ==
    {SearchFailed} \cup
    IF ~Exists(snap.active) THEN {}
    ELSE LET res == EngineSearch(snap.active.docs, req.Query, ClampLimit(req.Limit))
         IN  {[err |-> "", total |-> res.Total,
               results |-> ResolveHits(res.Hits, snap.active.docs, snap.documents,
                                       req, failing)] :
                 failing \in SUBSET HitIds(res.Hits)}

\* C1: a Search works on one state of the engine from RLock to return: the
\* state it took the lock in is the state of no rebuild in progress (the one
\* before or the one after a rebuild), the active index, cache and taxonomy
\* stay what they were then at every step of the query, its hits are the
\* engine's hits on that state and its response is a response computed from
\* that state alone.
C1_SearchSeesOneState ==
    \A q \in Readers :
        qs[q].pc # "idle" =>
            /\ ~qs[q].midRebuild
            /\ qs[q].snap = Observed
            /\ qs[q].pc = "resolve" =>
                  qs[q].hits = EngineSearch(qs[q].snap.active.docs, qs[q].call.req.Query,
                                            ClampLimit(qs[q].call.req.Limit)).Hits
            /\ (qs[q].pc = "ret" /\ qs[q].call.kind = "Search") =>
                  qs[q].resp \in PossibleResponses(qs[q].snap, qs[q].call.req)

\* a Search answers from the cache a rebuild filled, while the next rebuild
\* is blocked in Lock() behind it
C1_Witness ==
    \E q \in Readers, r \in Rebuilders :
        /\ qs[q].pc = "ret" /\ qs[q].call.kind = "Search"
        /\ qs[q].resp.results # <<>>
        /\ qs[q].snap.documents # EmptyMap
        /\ rb[r].pc = "waitLock"

\* C8: the active handle, when open, is open on the active location and the
\* staging handle on the staging location, so one generation at most is the
\* active one; every index a query (Search, GetStats) has read was at the
\* active location, never at staging or backup; GetDocument and GetTaxonomy
\* read no index.
C8_QueriesReadOnlyActive ==
    /\ activeIndex.open => activeIndex.loc = "active"
    /\ stagingIndex.open => stagingIndex.loc = "staging"
    /\ \A q \in Readers :
          /\ qs[q].readLoc \in {"none", "active"}
          /\ qs[q].call.kind \in {"GetDocument", "GetTaxonomy"} => qs[q].readLoc = "none"
          /\ qs[q].pc # "idle" => qs[q].snap.active \in {Absent, fs["active"]}

\* after a rebuild a Search has read the active index while staging and a
\* different backup generation exist
C8_Witness ==
    \E q \in Readers :
        /\ qs[q].pc = "ret" /\ qs[q].call.kind = "Search"
        /\ qs[q].readLoc = "active"
        /\ qs[q].resp.results # <<>>
        /\ qs[q].snap.documents # EmptyMap
        /\ Exists(fs["staging"])
        /\ Exists(fs["backup"]) /\ fs["backup"].docs # fs["active"].docs

\* C10: while an IndexDocuments call is between Lock() and its return no
\* query is executing and no other IndexDocuments is, and a step that changes
\* the document cache or the taxonomy is a step of the one call holding the
\* exclusive lock; queries may execute together.
C10_RebuildExcludesQueries ==
    /\ [](\A r \in Rebuilding : Querying = {} /\ Rebuilding = {r} /\ mu.writer = r)
    /\ [][(documents' # documents \/ taxonomy' # taxonomy) =>
             \E r \in Rebuilders : Rebuilding = {r} /\ mu.writer = r /\ Querying = {}]_vars

\* two queries execute at the same time while a rebuild is blocked in Lock()
C10_Witness ==
    /\ Cardinality(Querying) = 2
    /\ \E r \in Rebuilders : rb[r].pc = "waitLock"

----------------------------------------------------------------------------
\* Properties of the rebuild (specifications SpecRebuild and SpecTwice)

\* the calls that have run to their return statement
Returned == {r \in Rebuilders : rb[r].pc = "return"}

\* the documents of the first n of docs whose indexDocument succeeded
AcceptedDocs(docs, okIdx, n) == {docs[i] : i \in okIdx \cap 1..n}

FacetsOf(ds) ==
    [Versions  |-> UNION {NonEmpty(d.Version) : d \in ds},
     Sections  |-> UNION {NonEmpty(d.Section) : d \in ds},
     Platforms |-> UNION {NonEmpty(d.Platform) : d \in ds},
     Tags      |-> UNION {Range(d.Tags) : d \in ds}]

\* C2: an IndexDocuments call that returns an error, made when an active
\* generation existed and was open, leaves that generation at the active
\* location, unchanged and with the active handle open on it.
C2_FailedRebuildKeepsActive ==
    \A r \in Returned :
        (rb[r].err # "" /\ rb[r].pre.open /\ Exists(rb[r].pre.active)) =>
            /\ rb[r].preLoc = "active"
            /\ fs["active"] = rb[r].pre.active
            /\ activeIndex = OpenOn("active")

\* C3: after a successful IndexDocuments(D) the taxonomy is exactly the facet
\* values of the documents of D that were indexed.
C3_TaxonomyReplacedWholesale ==
    \A r \in Returned :
        rb[r].err = "" =>
            taxonomy = FacetsOf(AcceptedDocs(rb[r].docs, rb[r].okIdx, Len(rb[r].docs)))

\* C4: after a successful IndexDocuments(D) the cached ids are the ids
\* indexed from D, and the size of the cache (GetStats total_documents) is
\* the number of documents in the active generation.
C4_CacheHoldsLastRebuildOnly ==
    \A r \in Returned :
        rb[r].err = "" =>
            /\ DOMAIN documents =
                  {d.ID : d \in AcceptedDocs(rb[r].docs, rb[r].okIdx, Len(rb[r].docs))}
            /\ Cardinality(DOMAIN documents) = DocCount(fs["active"])

StepFailed(log, step) == \E i \in DOMAIN log : log[i] = <<step, FALSE>>

\* C6: when removing the old backup or renaming active to backup has failed,
\* the swap still moves staging into the active location: at the move, the
\* rename of staging to active succeeds unless the operating system fails it.
C6_BackupFailureNotFatal ==
    \A r \in Rebuilders :
        (/\ rb[r].pc = "swapMove"
         /\ \/ StepFailed(rb[r].log, "removeBackup")
            \/ StepFailed(rb[r].log, "renameActiveToBackup")) =>
            RenameOk(fs, "staging", "active", FALSE)

RECURSIVE ExpectedAfter(_, _, _, _)
\* staging index, taxonomy and cache after the first n documents, given the
\* indices whose indexDocument succeeded: only those are applied, in order
ExpectedAfter(pre, docs, okIdx, n) ==
    IF n = 0
    THEN [staging |-> EmptyMap, taxonomy |-> pre.taxonomy, documents |-> pre.documents]
    ELSE LET st == ExpectedAfter(pre, docs, okIdx, n - 1)
             d  == docs[n]
         IN  IF n \notin okIdx THEN st
             ELSE [staging   |-> Put(st.staging, d.ID, IndexDoc(d)),
                   taxonomy  |-> [Versions  |-> st.taxonomy.Versions \cup NonEmpty(d.Version),
                                  Sections  |-> st.taxonomy.Sections \cup NonEmpty(d.Section),
                                  Platforms |-> st.taxonomy.Platforms \cup NonEmpty(d.Platform),
                                  Tags      |-> st.taxonomy.Tags \cup Range(d.Tags)],
                   documents |-> Put(st.documents, d.ID, d)]

\* C7: a failed indexDocument does not abort the rebuild. At every point of
\* the loop and after it, the staging index holds exactly the documents
\* processed so far whose indexing succeeded, and cache and taxonomy are those
\* of the start of the call updated for exactly these documents; the call
\* returns without a swap only when creating staging failed before the loop,
\* so after the loop the swap always begins.
C7_IndexFailureSkipsOneDocument ==
    \A r \in Rebuilding :
        LET c   == rb[r]
            exp == ExpectedAfter(c.pre, c.docs, c.okIdx, c.i - 1)
        IN  /\ c.i >= 1 =>
                  /\ documents = exp.documents
                  /\ taxonomy = exp.taxonomy
                  /\ c.pc \in {"index", "swapClose"} => fs["staging"].docs = exp.staging
                  /\ c.pc # "index" =>
                        c.i = Len(c.docs) + 1 /\ (c.pc = "swapClose" \/ c.log # <<>>)
            /\ (c.pc = "return" /\ c.log = <<>>) =>
                  c.i = 0 /\ c.err \in {"failed to create staging directory",
                                        "failed to create new staging index"}

\* a rebuild of two documents, one failing and one indexed, has swapped and
\* returned success with the indexed one alone in the active index
C7_Witness ==
    \E r \in Returned :
        /\ rb[r].err = "" /\ Len(rb[r].docs) = 2
        /\ Cardinality(rb[r].okIdx) = 1
        /\ DocCount(fs["active"]) = 1
        /\ rb[r].pre.documents = EmptyMap /\ Cardinality(DOMAIN documents) = 1

\* the steps of atomicSwap in their order
SwapOrder == <<"close", "removeBackup", "renameActiveToBackup",
               "renameStagingToActive", "reopenActive", "newStaging">>

\* C9: the swap takes its steps in the fixed order close, remove backup,
\* rename active to backup, rename staging to active, reopen active, create
\* staging; once the handles are closed the active handle is open again only
\* after both renames were made, the rename of staging to active succeeded and
\* the reopen succeeded, and then it is open on the active location.
C9_SwapOrder ==
    \A r \in Rebuilding :
        LET log == rb[r].log
        IN  /\ Len(log) <= Len(SwapOrder)
            /\ \A i \in DOMAIN log : log[i][1] = SwapOrder[i]
            /\ (log # <<>> /\ activeIndex.open) =>
                  /\ Len(log) >= 5
                  /\ log[4] = <<"renameStagingToActive", TRUE>>
                  /\ log[5] = <<"reopenActive", TRUE>>
                  /\ activeIndex = OpenOn("active")
            /\ StepFailed(log, "renameStagingToActive") =>
                  rb[r].pc = "return" /\ rb[r].err # "" /\ ~activeIndex.open

\* a swap whose backup rename failed has still assigned the active handle,
\* after the staging-to-active rename succeeded
C9_Witness ==
    \E r \in Returned :
        /\ rb[r].err = "" /\ Len(rb[r].log) = Len(SwapOrder)
        /\ StepFailed(rb[r].log, "renameActiveToBackup")
        /\ activeIndex = OpenOn("active")

\* C5: when a caller runs IndexDocuments twice in a row with the same list,
\* both calls return success and the engine accepts the same documents of
\* the list in both, the active generation has the same document count and
\* the taxonomy has the same four facet sets after the second call as after
\* the first.
C5_RebuildIdempotent ==
    \A r \in Returned :
        (rb[r].repeat = 2 /\ rb[r].err = "" /\ rb[r].okIdx = rb[r].first.okIdx) =>
            /\ DocCount(HandleGen(activeIndex, fs)) = rb[r].first.count
            /\ taxonomy = rb[r].first.taxonomy

\* the second of two successful calls with the same two documents has
\* returned, on an engine whose taxonomy holds values of an earlier rebuild
C5_Witness ==
    \E r \in Returned :
        /\ rb[r].repeat = 2 /\ rb[r].err = ""
        /\ rb[r].okIdx = rb[r].first.okIdx /\ rb[r].okIdx = {1, 2}
        /\ rb[r].first.count = 2
        /\ taxonomy # FacetsOf(Range(rb[r].docs))

----------------------------------------------------------------------------
\* Properties of the searches of SpecSearch

\* a Search that computed its hits without an error
Searched(q) ==
    /\ qs[q].pc \in {"resolve", "ret"}
    /\ qs[q].call.kind = "Search"
    /\ qs[q].resp.err = ""

\* a Search about to return its response
Answered(q) == Searched(q) /\ qs[q].pc = "ret"

NoFilters(req) == req.Version = "" /\ req.Section = "" /\ req.Platform = ""

\* C11: the size handed to the engine is 5 when the requested limit is 0 or
\* above 5 and the limit itself when it is between 1 and 5, so the hit list
\* holds that many hits (or all matches, if fewer), and a response never
\* holds more than 5 results.
C11_LimitClampedToCeiling ==
    \A q \in Readers :
        Searched(q) =>
            LET limit == qs[q].call.req.Limit
                total == qs[q].resp.total
            IN  /\ (limit = 0 \/ limit > 5) => Len(qs[q].hits) = Min(5, total)
                /\ limit \in 1..5 => Len(qs[q].hits) = Min(limit, total)
                /\ Len(qs[q].resp.results) <= 5

\* a search with limit 20 over six matches returns five results
C11_Witness ==
    \E q \in Readers :
        /\ Answered(q)
        /\ qs[q].call.req.Limit = DefaultLimit
        /\ qs[q].resp.total = 6
        /\ Len(qs[q].resp.results) = 5

\* the limit of a tool call: the supplied one, or the documented default
EffectiveLimit(args) == IF args.limit = 0 THEN DefaultLimit ELSE args.limit

\* C12: a search_talos_docs call returns up to its limit results (20 when
\* the caller supplies none): with no filters and no failed retrieval it
\* returns as many results as there are matches, up to that limit.
C12_ToolLimitIsMaximum ==
    \A q \in Readers :
        (/\ Answered(q)
         /\ qs[q].call.tool # NoArgs
         /\ NoFilters(qs[q].call.req)
         /\ qs[q].failed = {})
        => Len(qs[q].resp.results) =
               Min(EffectiveLimit(qs[q].call.tool), qs[q].resp.total)

\* the content of a result's document as the engine held it
HeldContent(snap, id) ==
    IF id \in DOMAIN snap.documents THEN snap.documents[id].Content
    ELSE snap.active.docs[id].content

\* C13: the content of a result whose document holds more than 10000 bytes
\* is the first 10000 bytes followed by the truncation marker, of length
\* 10000 + the length of the marker; content of at most 10000 bytes is
\* returned unchanged; from the cache and from the index alike.
C13_ContentCapped ==
    \A q \in Readers :
        Answered(q) =>
            \A i \in DOMAIN qs[q].resp.results :
                LET got  == qs[q].resp.results[i].Document.Content
                    held == HeldContent(qs[q].snap, qs[q].resp.results[i].Document.ID)
                IN  IF Len(held) > 10000
                    THEN /\ got = SubSeq(held, 1, 10000) \o TruncationMarker
                         /\ Len(got) = 10000 + Len(TruncationMarker)
                    ELSE got = held

\* a response built from the index alone holds a document cut at the cap
\* and one of exactly 10000 bytes
C13_Witness ==
    \E q \in Readers :
        /\ Answered(q)
        /\ qs[q].snap.documents = EmptyMap
        /\ \E i, j \in DOMAIN qs[q].resp.results :
              /\ Len(HeldContent(qs[q].snap, qs[q].resp.results[i].Document.ID)) > 10000
              /\ Len(qs[q].resp.results[i].Document.Content) = 10000 + Len(TruncationMarker)
              /\ Len(HeldContent(qs[q].snap, qs[q].resp.results[j].Document.ID)) = 10000
              /\ Len(qs[q].resp.results[j].Document.Content) = 10000

\* the facets of a hit's document as the engine held it
HeldFacets(snap, id) ==
    IF id \in DOMAIN snap.documents
    THEN [version  |-> snap.documents[id].Version,
          section  |-> snap.documents[id].Section,
          platform |-> snap.documents[id].Platform]
    ELSE [version  |-> snap.active.docs[id].version,
          section  |-> snap.active.docs[id].section,
          platform |-> snap.active.docs[id].platform]

\* C14: every result equals each supplied filter; every hit that satisfies
\* the supplied filters and is resolvable (cached, or retrieved from the
\* index) is among the results; the total is the number of documents of the
\* active index that match the query, whatever the filters.
C14_FiltersApplied ==
    \A q \in Readers :
        Answered(q) =>
            LET req  == qs[q].call.req
                snap == qs[q].snap
                res  == qs[q].resp.results
            IN  /\ \A i \in DOMAIN res :
                      /\ req.Version # "" => res[i].Document.Version = req.Version
                      /\ req.Section # "" => res[i].Document.Section = req.Section
                      /\ req.Platform # "" => res[i].Document.Platform = req.Platform
                /\ \A h \in Range(qs[q].hits) :
                      LET f == HeldFacets(snap, h.ID)
                      IN  (/\ h.ID \in DOMAIN snap.documents \/ h.ID \notin qs[q].failed
                           /\ req.Version \in {"", f.version}
                           /\ req.Section \in {"", f.section}
                           /\ req.Platform \in {"", f.platform})
                          => \E i \in DOMAIN res : res[i].Document.ID = h.ID
                /\ qs[q].resp.total =
                      Cardinality({id \in DOMAIN snap.active.docs :
                                      WordOccurrences(snap.active.docs[id].content,
                                                      req.Query) # {}})

\* a search filtered by two facets returns some of its hits, fewer than the
\* engine matched
C14_Witness ==
    \E q \in Readers :
        /\ Answered(q)
        /\ qs[q].call.req.Section # "" /\ qs[q].call.req.Platform # ""
        /\ qs[q].resp.results # <<>>
        /\ Len(qs[q].resp.results) < Len(qs[q].hits)
        /\ Len(qs[q].hits) < qs[q].resp.total

RECURSIVE IsSubsequence(_, _)
\* res follows hits: each result is a later hit than the one before it, with
\* that hit's id and score
IsSubsequence(res, hits) ==
    IF res = <<>> THEN TRUE
    ELSE IF hits = <<>> THEN FALSE
    ELSE IF Head(res).Document.ID = Head(hits).ID /\ Head(res).Score = Head(hits).Score
    THEN IsSubsequence(Tail(res), Tail(hits))
    ELSE IsSubsequence(res, Tail(hits))

\* C15: the results are a subsequence of the engine's hits: in the order of
\* the hits, each with the score of its hit, no document twice.
C15_ResultsFollowHits ==
    \A q \in Readers :
        Answered(q) =>
            LET res == qs[q].resp.results
            IN  /\ IsSubsequence(res, qs[q].hits)
                /\ \A i, j \in DOMAIN res :
                      res[i].Document.ID = res[j].Document.ID => i = j

\* the filters dropped the best hit and one between two results
C15_Witness ==
    \E q \in Readers :
        /\ Answered(q)
        /\ Len(qs[q].resp.results) = 2
        /\ Len(qs[q].hits) = 5
        /\ qs[q].resp.results[1].Document.ID = qs[q].hits[2].ID
        /\ qs[q].resp.results[2].Document.ID = qs[q].hits[5].ID
        /\ qs[q].resp.results[1].Score > qs[q].resp.results[2].Score

\* the lines of a content that qualify: trimmed, not empty, no heading,
\* longer than 50 characters
Qualifying(lines) ==
    {i \in DOMAIN lines :
        LET t == TrimSpace(lines[i])
        IN  t # "" /\ ~HasPrefix(t, "#") /\ Len(t) > 50}

\* the text derived from a content with the bound n
Derived(content, n) ==
    LET lines == Split(content, "\n")
        q     == Qualifying(lines)
    IN  IF q = {} THEN ""
        ELSE LET t == TrimSpace(lines[CHOOSE i \in q : \A j \in q : i <= j])
             IN  IF Len(t) > n THEN SubSeq(t, 1, n) \o "..." ELSE t

\* C16: the snippet of a result is the first qualifying line of its content,
\* cut to the snippet length with "..." appended when it is longer, whole
\* otherwise, and empty when no line qualifies; the context is the same
\* with the bound 200.
C16_SnippetDerivation ==
    \A q \in Readers :
        Answered(q) =>
            \A i \in DOMAIN qs[q].resp.results :
                LET r == qs[q].resp.results[i]
                IN  /\ r.Snippet = Derived(r.Document.Content, SnippetLength)
                    /\ r.Context = Derived(r.Document.Content, 200)

\* one response holds a cut snippet, a whole one after a skipped heading
\* with its context cut, and an empty one
C16_Witness ==
    \E q \in Readers :
        /\ Answered(q)
        /\ \E i, j, k \in DOMAIN qs[q].resp.results :
              /\ Len(qs[q].resp.results[i].Snippet) = SnippetLength + 3
              /\ qs[q].resp.results[j].Document.ID = S3.ID
              /\ Len(qs[q].resp.results[j].Snippet) = 250
              /\ Len(qs[q].resp.results[j].Context) = 203
              /\ qs[q].resp.results[k].Snippet = ""

\* C18: the index holds the single document with content "# Installing\nRun
\* the installer."; a search for "installer" without filters returns exactly
\* one result, with id "v1.8-guides-install" and a non-empty snippet that
\* contains "Run the installer.".
C18_ScenarioQuery ==
    \A q \in Readers :
        (/\ Answered(q)
         /\ qs[q].call.req.Query = "installer"
         /\ NoFilters(qs[q].call.req)
         /\ qs[q].snap.active.docs = IndexOf(<<S1>>)
         /\ qs[q].failed = {})
        => /\ Len(qs[q].resp.results) = 1
           /\ qs[q].resp.results[1].Document.ID = "v1.8-guides-install"
           /\ qs[q].resp.results[1].Snippet # ""
           /\ Contains(qs[q].resp.results[1].Snippet, "Run the installer.")

\* C27: a Search whose execution on the engine fails returns an error and
\* no response, and one whose execution succeeds returns a response without
\* an error, with an empty result list when there is no hit; a hit that is
\* not cached and whose retrieval from the index fails has no result, every
\* other hit that passes the filters has its result, and the response
\* carries no error.
C27_QueryErrorsDistinct ==
    [][\A q \in Readers :
          qs[q].call.kind = "Search" =>
              /\ (qs[q].pc = "exec" /\ qs'[q].pc # "exec")
                    => \/ /\ qs'[q].pc = "ret"
                          /\ qs'[q].resp.err # ""
                          /\ qs'[q].resp.results = <<>>
                          /\ qs'[q].hits = <<>>
                       \/ /\ qs'[q].pc = "resolve"
                          /\ qs'[q].resp.err = ""
              /\ (qs[q].pc = "resolve" /\ qs'[q].pc # "resolve")
                    => LET hits   == qs[q].hits
                           req    == qs[q].call.req
                           snap   == qs[q].snap
                           res    == qs'[q].resp.results
                           failed == qs'[q].failed
                           Lost(id) == id \notin DOMAIN snap.documents /\ id \in failed
                       IN  /\ qs'[q].pc = "ret"
                           /\ qs'[q].resp.err = ""
                           /\ hits = <<>> => res = <<>>
                           /\ \A h \in Range(hits) :
                                 LET f == HeldFacets(snap, h.ID)
                                 IN  (\E i \in DOMAIN res : res[i].Document.ID = h.ID)
                                     <=> /\ ~Lost(h.ID)
                                         /\ req.Version \in {"", f.version}
                                         /\ req.Section \in {"", f.section}
                                         /\ req.Platform \in {"", f.platform}
      ]_vars

\* the retrieval of one hit failed and the response holds the results of
\* the other hits
C27_Witness ==
    \E q \in Readers :
        /\ Answered(q)
        /\ qs[q].failed # {}
        /\ qs[q].failed \subseteq HitIds(qs[q].hits)
        /\ qs[q].resp.results # <<>>
        /\ qs[q].resp.err = ""

----------------------------------------------------------------------------
\* Properties of the extraction of SpecSync

\* the call of r holds the documents extracted from the clone
Extracted(r) == rb[r].pc \notin {"idle", "syncReturn"}

\* C17: from the manifest with the one tab "Talos", version "v1.8", group
\* "Guides", page "install" and the file install.md holding "# Installing\nRun
\* the installer.", extraction yields exactly one document, with id
\* "v1.8-guides-install", title "Installing" and tags that contain "guides"
\* and "install".
C17_ScenarioExtraction ==
    \A r \in Rebuilders :
        (/\ Extracted(r)
         /\ repo.nav = NavScenario
         /\ IsNotExist(repo.files, "public/install.mdx")
         /\ FileAt(repo.files, "public/install.md") = File(ScenarioContent))
        => /\ Len(rb[r].docs) = 1
           /\ rb[r].docs[1].ID = "v1.8-guides-install"
           /\ rb[r].docs[1].Title = "Installing"
           /\ {"guides", "install"} \subseteq Range(rb[r].docs[1].Tags)

RECURSIVE GroupRefs(_, _, _)
\* the page references of a group: version, section and path of every page
\* in it and in the groups nested in it
GroupRefs(version, group, pages) ==
    UNION {IF p.kind = "page"
           THEN {[version |-> version, section |-> group, path |-> p.page]}
           ELSE IF p.kind = "group" THEN GroupRefs(version, p.group, p.pages)
           ELSE {} : p \in Range(pages)}

\* the page references of the tabs with one of the names
TabRefs(nav, names) ==
    LET tabs     == {t \in Range(nav.Tabs) : t.Tab \in names}
        versions == UNION {Range(t.Versions) : t \in tabs}
    IN  UNION {UNION {GroupRefs(v.Version, g.Group, g.Pages) : g \in Range(v.Groups)} :
                  v \in versions}

\* what the lookup of a page reads: the .mdx file when it exists, else the
\* .md file
Looked(files, path) ==
    IF ~IsNotExist(files, "public/" \o path \o ".mdx")
    THEN FileAt(files, "public/" \o path \o ".mdx")
    ELSE FileAt(files, "public/" \o path \o ".md")

\* a page whose lookup reads content that is not empty
Resolvable(files, path) ==
    Looked(files, path).state = "ok" /\ Looked(files, path).content # ""

\* the reference a document was made from
RefOf(doc) == [version |-> doc.Version, section |-> doc.Section, path |-> doc.Path]

\* C19: every extracted document comes from a page of a tab named "Talos",
\* none from another tab, and every resolvable page of every version of the
\* Talos tab has its document.
C19_OnlyTalosTab ==
    \A r \in Rebuilders :
        Extracted(r) =>
            LET docs == rb[r].docs
                refs == TabRefs(repo.nav, {"Talos"})
            IN  /\ \A i \in DOMAIN docs :
                      /\ docs[i].Metadata.tab = "Talos"
                      /\ RefOf(docs[i]) \in refs
                /\ \A ref \in refs :
                      Resolvable(repo.files, ref.path) =>
                          \E i \in DOMAIN docs : RefOf(docs[i]) = ref

\* next to a tab that is skipped although its pages resolve, the Talos tab
\* yields the documents of nested pages of two versions
C19_Witness ==
    \E r \in Rebuilders :
        /\ Extracted(r)
        /\ repo.nav = NavTwoTabs
        /\ Resolvable(repo.files, "k8s/intro")
        /\ Len(rb[r].docs) = 5

\* C20: a page is looked up as .mdx first and .md second: a document holds
\* the content of the .mdx file if that exists, else of the .md file; a page
\* of which neither file can be read, or whose content read is empty, has no
\* document; the extraction returns no error, and the pages whose lookup
\* reads content have their documents.
C20_MissingPagesDropped ==
    \A r \in Rebuilders :
        (rb[r].pc # "idle" /\ rb[r].err \notin {"Failed to sync repository",
                                                "Failed to get navigation"})
        => LET docs == rb[r].docs
               refs == TabRefs(repo.nav, {"Talos"})
           IN  /\ rb[r].err # "Failed to extract documents"
               /\ Extracted(r)
               /\ \A i \in DOMAIN docs :
                     /\ docs[i].Content = Looked(repo.files, docs[i].Path).content
                     /\ docs[i].Content # ""
               /\ \A ref \in refs :
                     LET mdx == ReadFile(repo.files, "public/" \o ref.path \o ".mdx")
                         md  == ReadFile(repo.files, "public/" \o ref.path \o ".md")
                     IN  /\ ((mdx.err /\ md.err) \/ Looked(repo.files, ref.path).content = "")
                            => \A i \in DOMAIN docs : docs[i].Path # ref.path
                         /\ Resolvable(repo.files, ref.path)
                            => \E i \in DOMAIN docs : docs[i].Path = ref.path

\* one page has an empty .mdx next to a full .md and is dropped, while
\* another page of the same manifest has its documents
C20_Witness ==
    \E r \in Rebuilders :
        /\ Extracted(r)
        /\ repo.nav = NavTwoTabs
        /\ FileAt(repo.files, "public/install.mdx") = File("")
        /\ FileAt(repo.files, "public/install.md") = File(ScenarioContent)
        /\ Len(rb[r].docs) = 2
        /\ \A i \in DOMAIN rb[r].docs : rb[r].docs[i].Path = "platforms/AWS"

----------------------------------------------------------------------------
\* Properties of the extraction of SpecExtract

\* the lines of a content that are level-1 headings once trimmed
Level1(content) ==
    LET lines == Split(content, "\n")
    IN  {n \in DOMAIN lines : HasPrefix(TrimSpace(lines[n]), "# ")}

\* C21: the title of a document is the text after the marker "# " of the
\* first line of its content, from the top, that is a level-1 heading once
\* trimmed; a line of a deeper level is never the source of the title; a
\* content without a level-1 heading has the base name of the page path as
\* its title.
C21_TitleResolution ==
    \A r \in Rebuilders :
        Extracted(r) =>
            \A i \in DOMAIN rb[r].docs :
                LET d     == rb[r].docs[i]
                    lines == Split(d.Content, "\n")
                    heads == Level1(d.Content)
                IN  IF heads = {}
                    THEN LET segments == Split(d.Path, "/")
                         IN  d.Title = segments[Len(segments)]
                    ELSE \E h \in heads :
                            /\ \A k \in heads : h <= k
                            /\ "# " \o d.Title = TrimSpace(lines[h])
                            /\ ~HasPrefix(TrimSpace(lines[h]), "##")

\* a level-2 heading stands above two level-1 headings and the first of the
\* two is the title
C21_Witness ==
    \E r \in Rebuilders :
        /\ Extracted(r)
        /\ \E i \in DOMAIN rb[r].docs :
              /\ rb[r].docs[i].Content = TitleSecond
              /\ rb[r].docs[i].Title = "Real Title"

\* platforms a group could supply
SuppliedPlatforms == {"metal", "gcp", "AWS"}

\* C22: no group supplying a platform, the platform of a document is the
\* first name of the vocabulary, in its order, that the lower-cased page path
\* contains, and empty when it contains none; a supplied platform is used as
\* it is.
C22_PlatformInference ==
    \A r \in Rebuilders :
        Extracted(r) =>
            \A i \in DOMAIN rb[r].docs :
                LET d      == rb[r].docs[i]
                    lower  == ToLower(d.Path)
                    occurs == {k \in DOMAIN PlatformNames : Contains(lower, PlatformNames[k])}
                IN  /\ IF occurs = {} THEN d.Platform = ""
                       ELSE \E k \in occurs : /\ \A j \in occurs : k <= j
                                               /\ d.Platform = PlatformNames[k]
                    /\ \A supplied \in SuppliedPlatforms :
                          extractDocument(repo.files, "Talos", d.Version, d.Section,
                                          supplied, d.Path)
                              = <<[d EXCEPT !.Platform = supplied]>>

\* the path names gcp before aws and the vocabulary aws before gcp
C22_Witness ==
    \E r \in Rebuilders :
        /\ Extracted(r)
        /\ \E i \in DOMAIN rb[r].docs :
              /\ rb[r].docs[i].Path = "cloud/gcp-on-aws"
              /\ rb[r].docs[i].Platform = "aws"

\* C23: the tags of a document are the segments of the lower-cased page path
\* between "/" followed by the keywords of the vocabulary that the lower-cased
\* content contains, in the order of the vocabulary; no tag is empty, none
\* stands twice, and each stands where it came first.
C23_TagDerivation ==
    \A r \in Rebuilders :
        Extracted(r) =>
            \A i \in DOMAIN rb[r].docs :
                LET d        == rb[r].docs[i]
                    tags     == d.Tags
                    segments == Split(ToLower(d.Path), "/")
                    keywords == SelectSeq(Keywords,
                                          LAMBDA w : Contains(ToLower(d.Content), w))
                    all      == segments \o keywords
                    First(x) == CHOOSE n \in DOMAIN all :
                                    all[n] = x /\ \A m \in 1..(n - 1) : all[m] # x
                IN  /\ Range(tags) = Range(all) \ {""}
                    /\ \A a \in DOMAIN tags, b \in DOMAIN tags :
                          a < b => /\ tags[a] # tags[b]
                                   /\ First(tags[a]) < First(tags[b])

\* a keyword of the content is a segment of the path too and stands once,
\* before the other keywords
C23_Witness ==
    \E r \in Rebuilders :
        /\ Extracted(r)
        /\ \E i \in DOMAIN rb[r].docs :
              /\ rb[r].docs[i].Path = "storage/Rock"
              /\ rb[r].docs[i].Content = TitleSecond
              /\ rb[r].docs[i].Tags = <<"storage", "rock", "api", "kernel">>

\* the last document of a list that has the id
LastWithId(docs, id) ==
    docs[CHOOSE n \in DOMAIN docs :
             docs[n].ID = id /\ \A m \in DOMAIN docs : docs[m].ID = id => m <= n]

\* the lists of the rebuilds made for sync_documentation that returned nil
\* and that no later such rebuild followed
LastRebuilt == {rb[r].last : r \in {x \in Rebuilders : rb[x].last # <<>>}}

\* C24: the id of a document is its version, "-", its lower-cased section,
\* "-" and the lower-cased base name of its page path; when documents of one
\* rebuild share an id, the cache and the index hold the last of them in the
\* list once the loop is through, and GetDocument and the result of a Search
\* hit for the id give that document.
C24_LastCollidingIdWins ==
    /\ \A r \in Rebuilders :
          Extracted(r) =>
              \A i \in DOMAIN rb[r].docs :
                  LET d        == rb[r].docs[i]
                      segments == Split(d.Path, "/")
                  IN  d.ID = d.Version \o "-" \o ToLower(d.Section) \o "-"
                                 \o ToLower(segments[Len(segments)])
    /\ \A r \in Rebuilders :
          (rb[r].pc = "return" /\ rb[r].err = "") =>
              \A i \in DOMAIN rb[r].docs :
                  LET id   == rb[r].docs[i].ID
                      last == LastWithId(rb[r].docs, id)
                  IN  /\ id \in DOMAIN documents /\ documents[id] = last
                      /\ id \in DOMAIN HandleGen(activeIndex, fs).docs
                      /\ HandleGen(activeIndex, fs).docs[id].content = last.Content
    /\ \A q \in Readers, docs \in LastRebuilt :
          LET c   == qs[q].call
              res == qs[q].resp.results
          IN  /\ (qs[q].pc = "ret" /\ c.kind = "GetDocument"
                    /\ \E i \in DOMAIN docs : docs[i].ID = c.id)
                  => res = <<LastWithId(docs, c.id)>>
              /\ Answered(q) =>
                    \A k \in DOMAIN res :
                        (\E i \in DOMAIN docs : docs[i].ID = res[k].Document.ID)
                        => LET last == LastWithId(docs, res[k].Document.ID)
                           IN  /\ res[k].Document.Path = last.Path
                               /\ res[k].Document.Content = last.Content
                               /\ res[k].Document.Title = last.Title

\* two pages of one group have the id v1.8-guides-install; a Search hit for
\* it gives the second page of the manifest
C24_Witness ==
    \E q \in Readers, docs \in LastRebuilt :
        /\ Answered(q)
        /\ Len(docs) = 2
        /\ docs[1].ID = docs[2].ID
        /\ docs[1].Path = "guides/install"
        /\ Len(qs[q].resp.results) = 1
        /\ qs[q].resp.results[1].Document.Path = "install"

----------------------------------------------------------------------------
\* Properties of the start-up and the sync requests of SpecStart

\* the extractions on record: those whose lists are being indexed and those
\* of the last rebuilds, each with the manifest and files it read
Runs ==
    {[docs |-> rb[r].docs, src |-> rb[r].src] :
        r \in {x \in Rebuilders : rb[x].src # NoSource}}
    \cup {[docs |-> rb[r].last, src |-> rb[r].lastSrc] :
             r \in {x \in Rebuilders : rb[x].lastSrc # NoSource}}

ProviderErrors ==
    {"Failed to sync repository", "Failed to get navigation", "failed to get navigation"}

\* the index handles, the three locations, the cache and the taxonomy
EngineState == <<fs, activeIndex, stagingIndex, documents, taxonomy>>

C28_ReindexedOnEveryStart ==
    \A r \in Rebuilders :
        (rb[r].caller = "init" /\ rb[r].pc = "done" /\ rb[r].err = "")
        => /\ documents # EmptyMap
           /\ taxonomy # EmptyTaxonomy

----------------------------------------------------------------------------
\* Properties of the reading operations of SpecRead

\* what the holder of a taxonomy returned by GetTaxonomy finds in it
Seen(h) == IF h.alias THEN taxonomy ELSE h.value

\* C29: no step of Search, GetDocument, GetTaxonomy or GetStats changes the
\* active or the staging handle, the three locations, the cache (the content
\* of a cached document stays whole when the response carries it capped) or
\* the taxonomy; the taxonomy that GetTaxonomy returns holds what the engine's
\* holds at that time, and what its holder finds in it stays the same while
\* rebuilds change the engine's.
C29_QueriesReadOnly ==
    [][/\ (\E q \in Readers : qs'[q] # qs[q]) => UNCHANGED EngineState
       /\ \A q \in Readers :
             /\ (qs[q].pc = "read" /\ qs'[q].held.held) => Seen(qs[q].held)' = taxonomy
             /\ (qs[q].held.held /\ qs'[q].held = qs[q].held)
                   => Seen(qs[q].held)' = Seen(qs[q].held)
      ]_vars

\* a handler holds a taxonomy from before a rebuild that added facets, and
\* its Search returns a cached document of more than 10000 bytes capped
C29_Witness ==
    \E q \in Readers :
        /\ Answered(q)
        /\ qs[q].held.held
        /\ Seen(qs[q].held) # taxonomy
        /\ \E i \in DOMAIN qs[q].resp.results :
              LET d == qs[q].resp.results[i].Document
              IN  /\ d.ID \in DOMAIN documents
                  /\ Len(documents[d.ID].Content) > ContentCap
                  /\ Len(d.Content) = ContentCap + Len(TruncationMarker)

----------------------------------------------------------------------------
\* The lock discipline of SpecStart

\* C30: a step that changes a handle, the cache or the taxonomy is a step of
\* the call that holds the lock exclusively; a step in which a query reads
\* them is a step of a holder of the shared lock; and the step in which
\* initializeDocuments reads the count of the active index is a step of a
\* holder of the lock as well.
C30_AllAccessUnderLock ==
    [][/\ <<activeIndex, stagingIndex, documents, taxonomy>>'
             # <<activeIndex, stagingIndex, documents, taxonomy>>
          => /\ mu.writer \in Rebuilders
             /\ rb'[mu.writer] # rb[mu.writer]
       /\ \A q \in Readers :
             (qs[q].pc \in {"exec", "resolve", "read"} /\ qs'[q] # qs[q])
             => q \in mu.readers
       /\ \A r \in Rebuilders :
             (rb[r].pc = "start" /\ rb'[r].pc # "start")
             => mu.writer = r \/ r \in mu.readers
      ]_vars

----------------------------------------------------------------------------
\* The engine after a successful rebuild (specification SpecRebuild)

\* C31: when IndexDocuments returns nil, the active handle is open on the
\* active location, which holds exactly the documents of the list whose
\* indexing succeeded; the staging handle is open on a new, empty generation
\* at the staging location; and when the rename of active to backup
\* succeeded, the backup location holds the generation that was active when
\* the call began.
C31_IdleConfigurationAfterSuccess ==
    \A r \in Returned :
        rb[r].err = "" =>
            LET c   == rb[r]
                exp == ExpectedAfter(c.pre, c.docs, c.okIdx, Len(c.docs))
            IN  /\ activeIndex = OpenOn("active")
                /\ Exists(fs["active"])
                /\ fs["active"].docs = exp.staging
                /\ stagingIndex = OpenOn("staging")
                /\ fs["staging"] = NewGen
                /\ (Len(c.log) >= 3 /\ c.log[3] = <<"renameActiveToBackup", TRUE>>) =>
                      /\ fs["backup"] = c.pre.active
                      /\ c.preLoc = "backup"

\* a rebuild of two documents, one of them failing to index, has returned nil
\* on an engine whose previous generation held documents and is now the backup
C31_Witness ==
    \E r \in Returned :
        /\ rb[r].err = "" /\ Len(rb[r].docs) = 2 /\ Cardinality(rb[r].okIdx) = 1
        /\ rb[r].log[3] = <<"renameActiveToBackup", TRUE>>
        /\ DocCount(rb[r].pre.active) = 2
        /\ fs["backup"] = rb[r].pre.active
        /\ DocCount(fs["active"]) = 1
        /\ stagingIndex = OpenOn("staging")

\* C32: when IndexDocuments returns an error, the document cache and the
\* taxonomy are those the engine held when the call began.
C32_FailedRebuildKeepsCacheAndTaxonomy ==
    \A r \in Returned :
        rb[r].err # "" =>
            /\ documents = rb[r].pre.documents
            /\ taxonomy = rb[r].pre.taxonomy

----------------------------------------------------------------------------
\* Properties of the traversal of nested groups (specification SpecNested)

RECURSIVE Positions(_)
\* the positions of the items of a page list and of the lists nested in it:
\* the index of the item, after the indices of the groups that enclose it
Positions(pages) ==
    UNION {{<<i>>} \cup (IF pages[i].kind = "group"
                         THEN {<<i>> \o ip : ip \in Positions(pages[i].pages)}
                         ELSE {}) : i \in DOMAIN pages}

RECURSIVE ItemAt(_, _)
ItemAt(pages, ip) ==
    IF Len(ip) = 1 THEN pages[ip[1]] ELSE ItemAt(pages[ip[1]].pages, Tail(ip))

\* the group of the manifest at tab t, version v, group g
GroupAt(nav, pos) == nav.Tabs[pos[1]].Versions[pos[2]].Groups[pos[3]]

Within(pos) == SubSeq(pos, 4, Len(pos))

\* the positions <<tab, version, group, item, ...>> of the page references of
\* the tabs named Talos
PagePositions(nav) ==
    UNION {UNION {UNION {{<<t, v, g>> \o ip :
                            ip \in {jp \in Positions(nav.Tabs[t].Versions[v].Groups[g].Pages) :
                                       ItemAt(nav.Tabs[t].Versions[v].Groups[g].Pages, jp).kind
                                           = "page"}} :
                         g \in DOMAIN nav.Tabs[t].Versions[v].Groups} :
                  v \in DOMAIN nav.Tabs[t].Versions} :
           t \in {u \in DOMAIN nav.Tabs : nav.Tabs[u].Tab = "Talos"}}

PathAt(nav, pos) == ItemAt(GroupAt(nav, pos).Pages, Within(pos)).page

VersionAt(nav, pos) == nav.Tabs[pos[1]].Versions[pos[2]].Version

\* the name of the group that encloses the page most closely
SectionAt(nav, pos) ==
    LET ip == Within(pos)
    IN  IF Len(ip) = 1 THEN GroupAt(nav, pos).Group
        ELSE ItemAt(GroupAt(nav, pos).Pages, SubSeq(ip, 1, Len(ip) - 1)).group

RECURSIVE Precedes(_, _)
\* the order of the manifest read from top to bottom
Precedes(a, b) ==
    IF a = <<>> \/ b = <<>> THEN a = <<>> /\ b # <<>>
    ELSE IF Head(a) # Head(b) THEN Head(a) < Head(b)
    ELSE Precedes(Tail(a), Tail(b))

\* the page positions whose lookup reads content
ResolvablePositions(nav, files) ==
    {pos \in PagePositions(nav) : Resolvable(files, PathAt(nav, pos))}

\* C33: a page inside a nested group, at any depth, has the name of the
\* group that encloses it most closely as its section and in its id; a page
\* of the parent before or after the nested group has the parent's name; and
\* a platform given to the traversal of a group is the platform of all its
\* documents, those of nested groups included.
C33_NestedGroupSections ==
    \A r \in Rebuilders :
        Extracted(r) =>
            LET docs == rb[r].docs
                nav  == rb[r].src.nav
                rp   == ResolvablePositions(nav, rb[r].src.files)
                Made(pos) == [version |-> VersionAt(nav, pos),
                              section |-> SectionAt(nav, pos),
                              path    |-> PathAt(nav, pos)]
            IN  /\ {RefOf(docs[i]) : i \in DOMAIN docs} = {Made(pos) : pos \in rp}
                /\ \A i \in DOMAIN docs :
                      docs[i].ID = docs[i].Version \o "-" \o ToLower(docs[i].Section)
                                       \o "-" \o ToLower(Base(docs[i].Path))
                /\ \A t \in DOMAIN nav.Tabs : \A v \in DOMAIN nav.Tabs[t].Versions :
                      \A g \in DOMAIN nav.Tabs[t].Versions[v].Groups :
                         LET grp  == nav.Tabs[t].Versions[v].Groups[g]
                             ver  == nav.Tabs[t].Versions[v].Version
                             none == extractDocumentsFromGroup(rb[r].src.files, "Talos", ver,
                                                               grp.Group, "", grp.Pages)
                         IN  \A supplied \in SuppliedPlatforms :
                                extractDocumentsFromGroup(rb[r].src.files, "Talos", ver,
                                                          grp.Group, supplied, grp.Pages)
                                    = [j \in DOMAIN none |->
                                          [none[j] EXCEPT !.Platform = supplied]]

\* the install page stands in the parent before the nested group, two and
\* three groups deep, and in the parent again after the nested group
C33_Witness ==
    \E r \in Rebuilders :
        /\ Extracted(r)
        /\ repo.nav = NavNested
        /\ {d.Section : d \in {e \in Range(rb[r].docs) : e.Path = "install"}}
              = {"Guides", "Platforms", "Deep", "Reference"}
        /\ \E i \in DOMAIN rb[r].docs :
              rb[r].docs[i].Section = "Deeper" /\ rb[r].docs[i].ID = "v1.8-deeper-rock"

\* C34: the extraction makes one document for every page reference of the
\* Talos tab whose lookup reads content, in the order of the manifest read
\* from top to bottom with nested groups in place, and the calls of the
\* traversal are no deeper for a group with nested groups than for a group
\* without.
C34_DepthFirstBoundedStack ==
    \A r \in Rebuilders :
        Extracted(r) =>
            LET docs == rb[r].docs
                nav  == rb[r].src.nav
                rp   == ResolvablePositions(nav, rb[r].src.files)
                Rank(pos) == 1 + Cardinality({q \in rp : Precedes(q, pos)})
            IN  /\ Len(docs) = Cardinality(rp)
                /\ \A pos \in rp :
                      /\ docs[Rank(pos)].Path = PathAt(nav, pos)
                      /\ docs[Rank(pos)].Version = VersionAt(nav, pos)
                      /\ docs[Rank(pos)].Section = SectionAt(nav, pos)
                /\ \A t \in DOMAIN nav.Tabs : \A v \in DOMAIN nav.Tabs[t].Versions :
                      \A g \in DOMAIN nav.Tabs[t].Versions[v].Groups :
                         GroupCallDepth(nav.Tabs[t].Versions[v].Groups[g].Pages)
                             = GroupCallDepth(<<>>)

----------------------------------------------------------------------------
\* Release of the lock (specification SpecFair)

\* C35: the exclusive lock is held exactly by the IndexDocuments calls
\* between Lock() and return and the shared lock exactly by the queries
\* between RLock() and return; every holder releases the lock, on the
\* error returns as on the others; a rebuild blocked in Lock() gets the lock
\* and a query blocked in RLock() gets it.
C35_LockAlwaysReleased ==
    /\ [](\A r \in Rebuilders : (mu.writer = r) <=> (r \in Rebuilding))
    /\ [](mu.readers = Querying)
    /\ \A r \in Rebuilders : (mu.writer = r) ~> (mu.writer # r)
    /\ \A q \in Readers : (q \in mu.readers) ~> (q \notin mu.readers)
    /\ \A r \in Rebuilders : (rb[r].pc = "waitLock") ~> (mu.writer = r)
    /\ \A q \in Readers : (qs[q].pc = "waitRLock") ~> (q \in mu.readers)

\* a rebuild whose swap failed is about to return while another rebuild is
\* blocked in Lock() and a query in RLock()
C35_Witness ==
    \E r \in Returned :
        /\ rb[r].err = "failed to move staging index to active"
        /\ mu.writer = r
        /\ \E w \in Rebuilders : rb[w].pc = "waitLock"
        /\ Blocked # {}

----------------------------------------------------------------------------
\* The two ways of resolving a hit (specification SpecTags)

\* the document a hit resolves to: from the cache when it holds the id,
\* else from the fields stored in the index
Resolved(id, stored, cache) ==
    IF id \in DOMAIN cache THEN FromCache(cache[id]) ELSE FromIndex(id, stored[id])

\* C36: for every document in the active index that the cache holds as it
\* was indexed, the document rebuilt from the stored fields has the title,
\* capped content, version, section, platform and tag list of the cached
\* document, and with it the same snippet and the same filtering decisions.
C36_ResolutionPathsAgree ==
    LET stored == HandleGen(activeIndex, fs).docs
    IN  Rebuilding = {} =>
           \A id \in DOMAIN documents \cap DOMAIN stored :
               stored[id] = IndexDoc(documents[id]) =>
                   LET hit  == Resolved(id, stored, documents)
                       miss == Resolved(id, stored, EmptyMap)
                   IN  /\ miss.Title = hit.Title
                       /\ miss.Content = hit.Content
                       /\ miss.Version = hit.Version
                       /\ miss.Section = hit.Section
                       /\ miss.Platform = hit.Platform
                       /\ miss.Tags = hit.Tags
                       /\ extractSnippet(miss.Content) = extractSnippet(hit.Content)
                       /\ \A c \in TagCalls :
                             PassesFilters(miss, c.req) = PassesFilters(hit, c.req)

----------------------------------------------------------------------------
\* The cycle of a sync_documentation request (specification SpecForce)

\* the process starts on a checkout it cloned itself (gitRepo set) or on one
\* it found on disk (gitRepo nil)
ForceRepos == {[c EXCEPT !.cloned = b] : c \in StartRepos, b \in BOOLEAN}

InitForce == InitOn({EmptyMap}, ForceRepos)

SpecForce == InitForce /\ [][NextSync]_vars

\* the list of the request was extracted from the clone and is what the
\* active index holds when IndexDocuments is about to return nil
ExtractedAndRebuilt(r) ==
    /\ rb[r].docs = ExtractDocuments(rb[r].src.nav, rb[r].src.files).documents
    /\ activeIndex.open
    /\ HandleGen(activeIndex, fs).docs = IndexOf(rb[r].docs)

\* C37: a sync_documentation request whose rebuild is about to return nil,
\* so that the handler reports success, has fetched from the remote, then
\* extracted the list from the clone, then rebuilt the index from that list.
C37_SyncRunsFullCycle ==
    \A r \in Rebuilders :
        (rb[r].caller = "sync" /\ rb[r].pc = "return" /\ rb[r].err = "")
            => rb[r].fetched /\ ExtractedAndRebuilt(r)

\* what holds of every successful request: extraction, then the rebuild
C37_ExtractsAndRebuilds ==
    \A r \in Rebuilders :
        (rb[r].caller = "sync" /\ rb[r].pc = "return" /\ rb[r].err = "")
            => ExtractedAndRebuilt(r)

\* a checkout found on disk: a request that gets past the five minutes
\* ends in the recovered panic
C37_PanicOnFoundCheckout ==
    \E r \in Rebuilders : rb[r].pc = "syncReturn" /\ rb[r].err = "panic" /\ ~repo.cloned

----------------------------------------------------------------------------
\* The result size of Search over all limits (specification SpecLimit)

\* limits of search_talos_docs calls and of direct requests: negative,
\* absent, within the ceiling, above it
Limits == {0 - 3, 0 - 1, 0, 1, 5, 6}

LimitCalls ==
    {[kind |-> "Search",
      req |-> handleSearchDocs([NoArgs EXCEPT !.query = "talos", !.limit = l]),
      id |-> "", tool |-> [NoArgs EXCEPT !.query = "talos", !.limit = l]] : l \in Limits}
    \cup {[kind |-> "Search", req |-> [NoRequest EXCEPT !.Query = "talos", !.Limit = l],
           id |-> "", tool |-> NoArgs] : l \in Limits}
    \cup {[kind |-> "GetDocument", req |-> NoRequest, id |-> S1.ID, tool |-> NoArgs]}

InitLimit == InitOn(SearchStoredSets, {EmptyRepo})

NextLimit ==
    \/ Rebuild("r1", {<<S1, S2>>}, {FALSE}, {FALSE})
    \/ Query("q1", LimitCalls, BOOLEAN)

SpecLimit == InitLimit /\ [][NextLimit]_vars

\* C38: whatever limit a search carries, negative ones included, the size
\* that Search hands to the engine is at least 1 and at most 5.
C38_SizeBetweenOneAndFive ==
    \A q \in Readers :
        Searched(q) => ClampLimit(qs[q].call.req.Limit) \in 1..5

\* what holds of the limits that are not negative
C38_SizeOfNonNegativeLimits ==
    \A q \in Readers :
        (Searched(q) /\ qs[q].call.req.Limit >= 0)
            => ClampLimit(qs[q].call.req.Limit) \in 1..5

====
